---- MODULE Spec2Model ----
(***************************************************************************)
(* RSBSA Toolbelt: the masterlist triage of process_masterlist_merger      *)
(* (src/rsbsa_toolbelt.py, MODE 2).                                        *)
(*                                                                         *)
(* A text value is a sequence of one-character strings, so that str(),     *)
(* strip(), upper() and difflib's SequenceMatcher are computed as Python   *)
(* computes them.  A spreadsheet cell is Txt(s) or NaN (a missing cell).   *)
(***************************************************************************)
EXTENDS Integers, Sequences, FiniteSets, TLC

\* ------------------------------------------------------------------ bounds
\* Longest masterlist / parcel list the model reads.
MaxMaster == 3
MaxParcel == 2

\* --------------------------------------------------------------- text values
NaN == [null |-> TRUE, s |-> <<>>]
Txt(s) == [null |-> FALSE, s |-> s]

LowerCase == <<"a","b","c","d","e","f","g","h","i","j","k","l","m",
               "n","o","p","q","r","s","t","u","v","w","x","y","z">>
UpperCase == <<"A","B","C","D","E","F","G","H","I","J","K","L","M",
               "N","O","P","Q","R","S","T","U","V","W","X","Y","Z">>
\* The characters of the model in code-point order (Python compares str by code point).
Alphabet == <<" ", "-", "0","1","2","3","4","5","6","7","8","9">> \o UpperCase \o LowerCase

Ord(c) == CHOOSE i \in 1..Len(Alphabet) : Alphabet[i] = c

\* str.upper()
UpperChar(c) ==
  IF \E i \in 1..26 : LowerCase[i] = c
  THEN UpperCase[CHOOSE i \in 1..26 : LowerCase[i] = c]
  ELSE c
Upper(s) == [i \in 1..Len(s) |-> UpperChar(s[i])]

\* str.strip(): leading and trailing white space removed, inner white space kept.
Strip(s) ==
  LET nonblank == {i \in 1..Len(s) : s[i] # " "}
  IN  IF nonblank = {} THEN <<>>
      ELSE LET lo == CHOOSE i \in nonblank : \A j \in nonblank : i <= j
               hi == CHOOSE i \in nonblank : \A j \in nonblank : j <= i
           IN  SubSeq(s, lo, hi)

\* str(x) of a cell, and Series.astype(str): a missing cell reads 'nan'.
StrOf(c) == IF c.null THEN <<"n","a","n">> ELSE c.s

\* str(x).strip().upper()
NormStr(c) == Upper(Strip(StrOf(c)))

\* Python's < on str.
RECURSIVE StrLess(_, _)
StrLess(a, b) ==
  IF a = <<>> THEN b # <<>>
  ELSE IF b = <<>> THEN FALSE
  ELSE IF Head(a) = Head(b) THEN StrLess(Tail(a), Tail(b))
  ELSE Ord(Head(a)) < Ord(Head(b))

\* ------------------------------------------------- difflib.SequenceMatcher
\* Length of the common run of a[i..ahi] and b[j..bhi] (1-based, inclusive).
RECURSIVE RunLen(_, _, _, _, _, _)
RunLen(a, i, ahi, b, j, bhi) ==
  IF i > ahi \/ j > bhi \/ a[i] # b[j] THEN 0
  ELSE 1 + RunLen(a, i + 1, ahi, b, j + 1, bhi)

\* find_longest_match: the longest block, the leftmost in a, then the leftmost in b.
FindLongestMatch(a, alo, ahi, b, blo, bhi) ==
  LET P == (alo..ahi) \X (blo..bhi)
      k == CHOOSE n \in 0..(ahi - alo + 1) :
             /\ \/ n = 0
                \/ \E p \in P : RunLen(a, p[1], ahi, b, p[2], bhi) = n
             /\ \A p \in P : RunLen(a, p[1], ahi, b, p[2], bhi) <= n
  IN  IF k = 0 THEN <<alo, blo, 0>>
      ELSE LET i == CHOOSE x \in alo..ahi :
                      /\ \E y \in blo..bhi : RunLen(a, x, ahi, b, y, bhi) = k
                      /\ \A x2 \in alo..(x - 1) :
                           \A y \in blo..bhi : RunLen(a, x2, ahi, b, y, bhi) # k
               j == CHOOSE y \in blo..bhi :
                      /\ RunLen(a, i, ahi, b, y, bhi) = k
                      /\ \A y2 \in blo..(y - 1) : RunLen(a, i, ahi, b, y2, bhi) # k
           IN  <<i, j, k>>

\* get_matching_blocks: the sum of the sizes of the blocks found left and right
\* of the longest match, recursively.
RECURSIVE MatchingSize(_, _, _, _, _, _)
MatchingSize(a, alo, ahi, b, blo, bhi) ==
  IF alo > ahi \/ blo > bhi THEN 0
  ELSE LET m == FindLongestMatch(a, alo, ahi, b, blo, bhi)
       IN  IF m[3] = 0 THEN 0
           ELSE m[3] + MatchingSize(a, alo, m[1] - 1, b, blo, m[2] - 1)
                     + MatchingSize(a, m[1] + m[3], ahi, b, m[2] + m[3], bhi)

\* similar(a, b) = ratio() = 2.0 * matches / (len(a) + len(b)), and 1.0 for two
\* empty strings; kept as the fraction <<numerator, denominator>>.
similar(a, b) ==
  IF Len(a) + Len(b) = 0 THEN <<1, 1>>
  ELSE <<2 * MatchingSize(a, 1, Len(a), b, 1, Len(b)), Len(a) + Len(b)>>

\* The cutoff 0.85 as a fraction.
CutoffNum == 85
CutoffDen == 100


\* ------------------------------------------------------------ the two tables
\* A masterlist row (df_m, columns lower-cased) and a parcel row (df_p).
MRow(id, first, last, gender) ==
  [rsbsa_no |-> id, first_name |-> first, last_name |-> last,
   birthday |-> Txt(<<"1","9","9","0">>), gender |-> gender,
   farmer |-> Txt(<<"Y","E","S">>), farmworker |-> NaN, fisherfolk |-> NaN]
PRow(key, gender, farmerFlag) ==
  [ffrs_no |-> key, BIRTHDATE |-> Txt(<<"1","9","9","0">>), GENDER |-> gender,
   FARMER |-> farmerFlag, FARMWORKER |-> NaN, FISHERFOLK |-> Txt(<<"N","O">>)]

VARIABLES
  master,            \* df_m: the masterlist rows as read
  parcel,            \* df_p: the parcel rows as read
  pc,                \* the step of process_masterlist_merger that runs next
  dfm,               \* df_m's triage columns, one entry per masterlist row
  pairs,             \* the candidate pairs in the order the fuzzy loop visits them
  pairPos,           \* how many of them the loop has visited
  fuzzy_counter,     \* the next FUZZY group number
  fuzzyLog,          \* the pairs flagged so far; entry n was given FUZZY-n
  df_merged,         \* the joined table
  integrity_errors,  \* the mismatches found, not yet written to df_merged
  df_with,           \* sheet 'Clean - With Parcels'
  df_no,             \* sheet 'Clean - No Parcels'
  all_errors         \* sheet 'Erroneous & Conflicts'

\* The state of process_single_geotag_logic and of the parcel reference it is
\* given by load_geotag_parcel_reference.
VARIABLES
  df_geo,            \* the geotag file as read, TARGET_COLS_GEOTAG only
  ref,               \* the parcel list as read by load_geotag_parcel_reference
  gpc,               \* the step of the geotag processor that runs next
  df_parcel,         \* the parcel reference after the commodity mask
  df_duplicates,     \* the rows written to the '[duplicates]' workbook
  df_clean_geo,      \* the geotag rows, one per GEOREF ID
  geo_merged,        \* the left join with the reference, sorted for the collapse
  df_final,          \* sheet 'Clean Data'
  df_summary         \* sheet 'Uploader Summary'

geoVars == <<df_geo, ref, gpc, df_parcel, df_duplicates, df_clean_geo, geo_merged,
             df_final, df_summary>>

\* The geotag processor is not running.
GeoOff ==
  /\ df_geo = <<>>
  /\ ref = <<>>
  /\ gpc = "off"
  /\ df_parcel = <<>>
  /\ df_duplicates = {}
  /\ df_clean_geo = <<>>
  /\ geo_merged = <<>>
  /\ df_final = <<>>
  /\ df_summary = {}

\* The masterlist merger is not running.
MergerOff ==
  /\ master = <<>>
  /\ parcel = <<>>
  /\ pc = "off"
  /\ dfm = <<>>
  /\ pairs = <<>>
  /\ pairPos = 0
  /\ fuzzy_counter = 1
  /\ fuzzyLog = <<>>
  /\ df_merged = <<>>
  /\ integrity_errors = <<>>
  /\ df_with = {}
  /\ df_no = {}
  /\ all_errors = {}

mergerVars == <<master, parcel, pc, dfm, pairs, pairPos, fuzzy_counter, fuzzyLog,
                df_merged, integrity_errors, df_with, df_no, all_errors>>

\* The state of run_regional_analytics_mode4.
VARIABLES
  df_clean,          \* the clean registry rows as loaded, PROVINCE_SHEET added
  df_err,            \* the erroneous rows as loaded, PROVINCE_SHEET added
  apc,               \* the part of the analytics that runs next
  provs,             \* the provinces the running part has still to aggregate
  clean_outputs,     \* the rows of the clean summaries, all provinces
  err_outputs        \* the rows of the erroneous summaries, all provinces

aggVars == <<df_clean, df_err, apc, provs, clean_outputs, err_outputs>>

\* The analytics are not running.
AggOff ==
  /\ df_clean = <<>>
  /\ df_err = <<>>
  /\ apc = "off"
  /\ provs = <<>>
  /\ clean_outputs = {}
  /\ err_outputs = {}

\* The state of run_cli_app of the Excel toolbelt (excel_merger_web.py).
VARIABLES
  xpc,               \* the part of run_cli_app that runs next
  choice,            \* the operation chosen: "1" stack rows, "2" combine to sheets
  all_files,         \* the files found in the input folder, in listing order
  xi,                \* the place in all_files of the file the loop takes next
  expected_columns,  \* the master schema, once a file has set it
  validation_errors, \* the files that failed validation
  merged_data,       \* the frames buffered for stacking
  writer,            \* the sheets given to the open ExcelWriter
  files_to_delete,   \* the files marked for deletion
  removing,          \* the files the cleanup loop has still to remove
  output,            \* the output workbook on disk
  input_dir          \* the names of the files in the input folder

xlsVars == <<xpc, choice, all_files, xi, expected_columns, validation_errors,
             merged_data, writer, files_to_delete, removing, output, input_dir>>

NoColumns == [set |-> FALSE, cols |-> <<>>]
NoWorkbook == [saved |-> FALSE, rows |-> <<>>, sheets |-> <<>>]

\* The Excel toolbelt is not running.
XlsOff ==
  /\ xpc = "off"
  /\ choice = ""
  /\ all_files = <<>>
  /\ xi = 0
  /\ expected_columns = NoColumns
  /\ validation_errors = <<>>
  /\ merged_data = <<>>
  /\ writer = <<>>
  /\ files_to_delete = <<>>
  /\ removing = <<>>
  /\ output = NoWorkbook
  /\ input_dir = {}

\* One run of a pipeline seen from its files: the columns of its inputs and
\* the workbooks of the output folder.
VARIABLES
  job,               \* the pipeline that runs
  rpc,               \* the step of it that runs next
  schema,            \* what the input files hold: missing columns, duplicates
  disk,              \* the output folder: every workbook absent, old or new
  pending,           \* the regional workbooks still to generate
  outcome            \* how the run ended

runVars == <<job, rpc, schema, disk, pending, outcome>>

\* No pipeline run is followed.
RunOff ==
  /\ job = ""
  /\ rpc = "off"
  /\ schema = <<>>
  /\ disk = <<>>
  /\ pending = <<>>
  /\ outcome = ""

\* A LoadingSpinner scope: the thread that enters and leaves it, and the
\* spinner thread.
VARIABLES
  mpc,               \* where the main thread is
  spc,               \* where the spinner thread is
  busy,              \* self.busy
  glyph,             \* the place of self.spinner in its cycle
  screen_lock,       \* the thread holding self._screen_lock
  stdout,            \* the last thing written to the terminal
  work,              \* the progress of the computation inside the scope
  exc                \* the exception in flight in the main thread

spinVars == <<mpc, spc, busy, glyph, screen_lock, stdout, work, exc>>

\* No spinner is followed.
SpinOff ==
  /\ mpc = "off"
  /\ spc = "off"
  /\ busy = FALSE
  /\ glyph = 0
  /\ screen_lock = ""
  /\ stdout = ""
  /\ work = 0
  /\ exc = ""

ToolsOff == XlsOff /\ RunOff /\ SpinOff

notMerger == <<geoVars, aggVars, xlsVars, runVars, spinVars>>
notGeo == <<mergerVars, aggVars, xlsVars, runVars, spinVars>>
notAgg == <<mergerVars, geoVars, xlsVars, runVars, spinVars>>
notXls == <<mergerVars, geoVars, aggVars, runVars, spinVars>>
notRun == <<mergerVars, geoVars, aggVars, xlsVars, spinVars>>
notSpin == <<mergerVars, geoVars, aggVars, xlsVars, runVars>>

vars == <<mergerVars, geoVars, aggVars, xlsVars, runVars, spinVars>>

Range(f) == {f[i] : i \in DOMAIN f}
SeqsUpTo(S, n) == UNION {[1..k -> S] : k \in 0..n}

\* ------------------------------------------------------------- tags, groups
TagDuplicate == [kind |-> "[Duplicate RSBSA ID] ", detail |-> <<>>]
TagIdentity  == [kind |-> "[Identity Conflict] ", detail |-> <<>>]
TagMismatch(mismatches) == [kind |-> "[Data Mismatch] ", detail |-> mismatches]
NoGroup == <<>>
StrictGroup(key) == <<"STRICT-", key>>
FuzzyGroup(n) == <<"FUZZY-", n>>
DataErrGroup(key) == <<"DATA-ERR-", key>>

\* ------------------------------------------------------------------ loading
KeyId(cell) == NormStr(cell)

\* df_m after step 1: KEY_ID set, every row CLEAN with no tag and no group.
LoadedMaster(m) ==
  [i \in 1..Len(m) |->
     [KEY_ID |-> KeyId(m[i].rsbsa_no), DATA_STATUS |-> "CLEAN",
      ERROR_TAG |-> <<>>, CONFLICT_GROUP |-> NoGroup]]

ParcelKey(j) == KeyId(parcel[j].ffrs_no)
\* df_p.groupby('KEY_ID')['KEY_ID'].transform('count'), on the raw parcel rows.
ParcelCountRaw(j) ==
  Cardinality({k \in 1..Len(parcel) : parcel[k].ffrs_no = parcel[j].ffrs_no})
parcel_count_temp(j) == Cardinality({k \in 1..Len(parcel) : ParcelKey(k) = ParcelKey(j)})
HAS_MULTIPLE_LAND_HOLDINGS(j) == IF parcel_count_temp(j) > 1 THEN "YES" ELSE "NO"

\* ----------------------------------------------------- 3A strict duplicates
\* df_m.duplicated(subset=['KEY_ID'], keep=False): every row of a repeated key.
DupMaskKeepFirst(df, i) == \E j \in 1..(i - 1) : df[j].KEY_ID = df[i].KEY_ID
dup_mask(df, i) == \E j \in DOMAIN df : j # i /\ df[j].KEY_ID = df[i].KEY_ID

FlagStrict(df) ==
  [i \in DOMAIN df |->
     IF dup_mask(df, i)
     THEN [df[i] EXCEPT !.DATA_STATUS = "ERROR",
                        !.ERROR_TAG = Append(@, TagDuplicate),
                        !.CONFLICT_GROUP = StrictGroup(df[i].KEY_ID)]
     ELSE df[i]]

\* ------------------------------------------------------- 3B fuzzy matching
\* LOOSE_SIG: last name (a missing one reads '') trimmed and upper-cased, then
\* the birthday as astype(str) gives it.
LOOSE_SIG(r) ==
  Upper(Strip(IF r.last_name.null THEN <<>> ELSE r.last_name.s)) \o StrOf(r.birthday)

\* candidates, and those of them whose LOOSE_SIG occurs more than once.
candidates(df) == {i \in DOMAIN df : df[i].DATA_STATUS = "CLEAN"}
potential_dupes(df) ==
  {i \in candidates(df) :
     \E j \in candidates(df) : j # i /\ LOOSE_SIG(master[j]) = LOOSE_SIG(master[i])}

\* The pairs (i, j), i before j, of one LOOSE_SIG group.
GroupPairs(df) ==
  {p \in potential_dupes(df) \X potential_dupes(df) :
     p[1] < p[2] /\ LOOSE_SIG(master[p[1]]) = LOOSE_SIG(master[p[2]])}

\* groupby('LOOSE_SIG') visits the groups by ascending signature; the two loops
\* visit a group's pairs by ascending i, then ascending j.
VisitedBefore(p, q) ==
  LET sp == LOOSE_SIG(master[p[1]])
      sq == LOOSE_SIG(master[q[1]])
  IN  IF sp # sq THEN StrLess(sp, sq)
      ELSE p[1] < q[1] \/ (p[1] = q[1] /\ p[2] < q[2])

RECURSIVE InVisitOrder(_)
InVisitOrder(S) ==
  IF S = {} THEN <<>>
  ELSE LET first == CHOOSE p \in S : \A q \in S \ {p} : VisitedBefore(p, q)
       IN  <<first>> \o InVisitOrder(S \ {first})

\* similar(name1, name2) > 0.85
PassesInclusive(name1, name2) ==
  LET r == similar(name1, name2) IN r[1] * CutoffDen >= CutoffNum * r[2]
PassesCutoff(name1, name2) ==
  LET r == similar(name1, name2) IN r[1] * CutoffDen > CutoffNum * r[2]

\* if s1 and s2 and s1 != s2: continue
NeverVeto(r1, r2) == FALSE
SexVeto(r1, r2) ==
  LET s1 == NormStr(r1.gender)
      s2 == NormStr(r2.gender)
  IN  s1 # <<>> /\ s2 # <<>> /\ s1 # s2

\* What the loop does to df_m on a vetoed pair: nothing.
OnVetoClear(df, i, j) ==
  [df EXCEPT ![i] = [@ EXCEPT !.DATA_STATUS = "CLEAN", !.CONFLICT_GROUP = NoGroup],
             ![j] = [@ EXCEPT !.DATA_STATUS = "CLEAN", !.CONFLICT_GROUP = NoGroup]]
OnVeto(df, i, j) == df

\* Lines 328-334: both rows ERROR, the tag appended, the fresh group id on both.
FlagPairFirstOnly(df, i, j, n) ==
  [df EXCEPT ![i] = [@ EXCEPT !.DATA_STATUS = "ERROR",
                              !.ERROR_TAG = Append(@, TagIdentity),
                              !.CONFLICT_GROUP = FuzzyGroup(n)],
             ![j] = [@ EXCEPT !.DATA_STATUS = "ERROR",
                              !.CONFLICT_GROUP = FuzzyGroup(n)]]
FlagPair(df, i, j, n) ==
  [df EXCEPT ![i] = [@ EXCEPT !.DATA_STATUS = "ERROR",
                              !.ERROR_TAG = Append(@, TagIdentity),
                              !.CONFLICT_GROUP = FuzzyGroup(n)],
             ![j] = [@ EXCEPT !.DATA_STATUS = "ERROR",
                              !.ERROR_TAG = Append(@, TagIdentity),
                              !.CONFLICT_GROUP = FuzzyGroup(n)]]

name_of(r) == NormStr(r.first_name)

\* ------------------------------------------------- 4 merge, integrity check
\* The rows that go into the join: df_m[df_m['DATA_STATUS'] == 'CLEAN'].
AllRows(df) == DOMAIN df
df_m_clean(df) == {i \in DOMAIN df : df[i].DATA_STATUS = "CLEAN"}
df_m_error(df) == {i \in DOMAIN df : df[i].DATA_STATUS = "ERROR"}

\* One row of pd.merge(df_m_clean, df_p, on='KEY_ID', how='left'); p = 0 is a
\* masterlist row without a parcel row, its parcel columns all missing.
JoinedRow(df, m, p) ==
  [m |-> m, p |-> p, KEY_ID |-> df[m].KEY_ID, DATA_STATUS |-> df[m].DATA_STATUS,
   ERROR_TAG |-> df[m].ERROR_TAG, CONFLICT_GROUP |-> df[m].CONFLICT_GROUP,
   HAS_MULTIPLE_LAND_HOLDINGS |-> IF p = 0 THEN "NaN" ELSE HAS_MULTIPLE_LAND_HOLDINGS(p),
   HAS_PARCEL |-> IF p = 0 THEN "False" ELSE "True"]

\* The parcel rows of key KEY_ID = df[m].KEY_ID from position p on, in parcel order.
RECURSIVE RightRows(_, _, _)
RightRows(df, m, p) ==
  IF p > Len(parcel) THEN <<>>
  ELSE (IF ParcelKey(p) = df[m].KEY_ID THEN <<JoinedRow(df, m, p)>> ELSE <<>>)
       \o RightRows(df, m, p + 1)

\* The left join, masterlist rows in their order from row m on.
RECURSIVE InnerJoin(_, _, _)
InnerJoin(df, left, m) ==
  IF m > Len(df) THEN <<>>
  ELSE (IF m \notin left THEN <<>> ELSE RightRows(df, m, 1))
       \o InnerJoin(df, left, m + 1)
RECURSIVE LeftJoin(_, _, _)
LeftJoin(df, left, m) ==
  IF m > Len(df) THEN <<>>
  ELSE (IF m \notin left THEN <<>>
        ELSE IF RightRows(df, m, 1) = <<>> THEN <<JoinedRow(df, m, 0)>>
        ELSE RightRows(df, m, 1))
       \o LeftJoin(df, left, m + 1)

\* INTEGRITY_MAP: masterlist column, parcel column.
INTEGRITY_MAP ==
  << <<"rsbsa_no", "ffrs_no">>, <<"birthday", "BIRTHDATE">>, <<"gender", "GENDER">>,
     <<"farmer", "FARMER">>, <<"farmworker", "FARMWORKER">>,
     <<"fisherfolk", "FISHERFOLK">> >>

\* m_col.upper()
m_col_upper ==
  [rsbsa_no |-> "RSBSA_NO", birthday |-> "BIRTHDAY", gender |-> "GENDER",
   farmer |-> "FARMER", farmworker |-> "FARMWORKER", fisherfolk |-> "FISHERFOLK"]

\* val in ['NAN', 'NONE', '', 'NAT', 'NULL']
OnlyBlankIsEmpty(v) == v = <<>>
IsEmptyVal(v) ==
  v \in {<<"N","A","N">>, <<"N","O","N","E">>, <<>>, <<"N","A","T">>, <<"N","U","L","L">>}

\* The mismatches of one joined row, in INTEGRITY_MAP order, from entry f on.
RECURSIVE MismatchesAsTyped(_, _)
MismatchesAsTyped(row, f) ==
  IF f > Len(INTEGRITY_MAP) THEN <<>>
  ELSE LET m_col == INTEGRITY_MAP[f][1]
           val_m == StrOf(master[row.m][m_col])
           val_p == StrOf(parcel[row.p][INTEGRITY_MAP[f][2]])
       IN  (IF ~IsEmptyVal(Upper(Strip(val_m))) /\ ~IsEmptyVal(Upper(Strip(val_p)))
               /\ val_m # val_p
            THEN <<[field |-> m_col_upper[m_col], val_m |-> val_m, val_p |-> val_p]>>
            ELSE <<>>)
           \o MismatchesAsTyped(row, f + 1)
RECURSIVE mismatches(_, _)
mismatches(row, f) ==
  IF f > Len(INTEGRITY_MAP) THEN <<>>
  ELSE LET m_col == INTEGRITY_MAP[f][1]
           val_m == NormStr(master[row.m][m_col])
           val_p == NormStr(parcel[row.p][INTEGRITY_MAP[f][2]])
       IN  (IF ~IsEmptyVal(val_m) /\ ~IsEmptyVal(val_p) /\ val_m # val_p
            THEN <<[field |-> m_col_upper[m_col], val_m |-> val_m, val_p |-> val_p]>>
            ELSE <<>>)
           \o mismatches(row, f + 1)

\* integrity_errors: index and tag of every row with a parcel and a mismatch.
RECURSIVE IntegrityErrors(_, _)
IntegrityErrors(merged, k) ==
  IF k > Len(merged) THEN <<>>
  ELSE (IF merged[k].HAS_PARCEL = "True" /\ mismatches(merged[k], 1) # <<>>
        THEN <<[index |-> k, tag |-> TagMismatch(mismatches(merged[k], 1))]>>
        ELSE <<>>)
       \o IntegrityErrors(merged, k + 1)

\* Lines 385-387 for one entry of integrity_errors.
WriteErrorNoGroup(merged, err) ==
  [merged EXCEPT ![err.index] =
     [@ EXCEPT !.DATA_STATUS = "ERROR", !.ERROR_TAG = <<err.tag>>]]
WriteError(merged, err) ==
  [merged EXCEPT ![err.index] =
     [@ EXCEPT !.DATA_STATUS = "ERROR", !.ERROR_TAG = <<err.tag>>,
               !.CONFLICT_GROUP = DataErrGroup(merged[err.index].KEY_ID)]]

\* A row of df_m_error in all_errors: pd.concat leaves its parcel columns missing.
ErrorRow(df, m) ==
  [m |-> m, p |-> 0, KEY_ID |-> df[m].KEY_ID, DATA_STATUS |-> df[m].DATA_STATUS,
   ERROR_TAG |-> df[m].ERROR_TAG, CONFLICT_GROUP |-> df[m].CONFLICT_GROUP,
   HAS_MULTIPLE_LAND_HOLDINGS |-> "NaN", HAS_PARCEL |-> "NaN"]

\* ------------------------------------------------------------------- inputs
JUAN  == Txt(<<"J","U","A","N">>)
JUANA == Txt(<<" ","j","u","a","n","a">>)
\* 'MARIA CRISTINA FE' and 'MARIA CRISTINA FELICITA': 17 of 40 characters match.
MARIA_FE == Txt(<<"M","A","R","I","A"," ","C","R","I","S","T","I","N","A"," ","F","E">>)
MARIA_FELICITA ==
  Txt(<<"M","A","R","I","A"," ","C","R","I","S","T","I","N","A"," ",
        "F","E","L","I","C","I","T","A">>)
CRUZ  == Txt(<<"C","R","U","Z">>)
cruz  == Txt(<<" ","c","r","u","z">>)
REYES == Txt(<<"R","E","Y","E","S">>)
Male   == Txt(<<"M">>)
male   == Txt(<<"m"," ">>)
Female == Txt(<<"F">>)
Blank  == Txt(<<" ">>)
YES == Txt(<<"Y","E","S">>)
NO  == Txt(<<"N","O">>)
\* Identifiers: 'A1', ' a1' (the same key once trimmed and upper-cased), 'B1', 'C1'.
IdA  == Txt(<<"A","1">>)
IdA2 == Txt(<<" ","a","1">>)
\* The identifier of row i when every row has its own.
OwnId(i) == Txt(<<UpperCase[i], "1">>)

\* Masterlists whose identifiers repeat, over people of one loose signature.
IdRows == {MRow(id, JUAN, CRUZ, Male) : id \in {IdA, IdA2, OwnId(2), OwnId(3)}}
IdInputs ==
  {[m |-> m, p |-> p] : m \in SeqsUpTo(IdRows, MaxMaster) \ {<<>>},
                        p \in SeqsUpTo({PRow(OwnId(2), Female, YES)}, MaxParcel)}

\* Masterlists of distinct identifiers; first and last names vary.
NameChoices == ({JUAN, JUANA, MARIA_FE, MARIA_FELICITA} \X {cruz}) \cup {<<JUAN, REYES>>}
NameInputs ==
  {[m |-> [i \in 1..k |-> MRow(OwnId(i), c[i][1], c[i][2], Male)], p |-> <<>>] :
     k \in 1..MaxMaster, c \in [1..MaxMaster -> NameChoices]}

\* Masterlists of distinct identifiers and one first name; gender varies.
GenderChoices == ({Male, Female, NaN, Blank} \X {CRUZ}) \cup {<<male, cruz>>}
GenderInputs ==
  {[m |-> [i \in 1..k |-> MRow(OwnId(i), JUAN, c[i][2], c[i][1])], p |-> <<>>] :
     k \in 1..MaxMaster, c \in [1..MaxMaster -> GenderChoices]}

\* Masterlists of distinct people against parcel lists whose bio-data vary.
ParcelRows ==
  {PRow(key, b[1], b[2]) :
     key \in {IdA, IdA2},
     b \in {<<Male, YES>>, <<Female, YES>>, <<Female, NO>>, <<NaN, NO>>}}
  \cup {PRow(OwnId(2), Female, YES)}
JoinInputs ==
  {[m |-> [i \in 1..k |-> MRow(OwnId(i), JUAN, IF i = 1 THEN CRUZ ELSE REYES,
                                IF i = 1 THEN g ELSE Male)],
    p |-> p] :
     k \in 1..MaxMaster, g \in {male, NaN}, p \in SeqsUpTo(ParcelRows, MaxParcel)}

Inputs == IdInputs \cup NameInputs \cup GenderInputs \cup JoinInputs

\* -------------------------------------------------------------- the run
\* The state after steps 1 and 2 (both files loaded).
Init ==
  /\ \E inp \in Inputs : master = inp.m /\ parcel = inp.p
  /\ pc = "strict"
  /\ dfm = LoadedMaster(master)
  /\ pairs = <<>>
  /\ pairPos = 0
  /\ fuzzy_counter = 1
  /\ fuzzyLog = <<>>
  /\ df_merged = <<>>
  /\ integrity_errors = <<>>
  /\ df_with = {}
  /\ df_no = {}
  /\ all_errors = {}
  /\ GeoOff
  /\ AggOff
  /\ ToolsOff

\* Step 3A and the set-up of 3B (lines 289-312).
StrictDuplicates ==
  /\ pc = "strict"
  /\ dfm' = FlagStrict(dfm)
  /\ pairs' = InVisitOrder(GroupPairs(dfm'))
  /\ pc' = "fuzzy"
  /\ UNCHANGED <<master, parcel, pairPos, fuzzy_counter, fuzzyLog, df_merged,
                 integrity_errors, df_with, df_no, all_errors>>
  /\ UNCHANGED notMerger

\* One pass of the inner loop of 3B (lines 316-335).
FuzzyPair ==
  /\ pc = "fuzzy"
  /\ pairPos < Len(pairs)
  /\ LET idx1 == pairs[pairPos + 1][1]
         idx2 == pairs[pairPos + 1][2]
         r1 == master[idx1]
         r2 == master[idx2]
     IN  IF PassesCutoff(name_of(r1), name_of(r2))
         THEN IF SexVeto(r1, r2)
              THEN /\ dfm' = OnVeto(dfm, idx1, idx2)
                   /\ UNCHANGED <<fuzzy_counter, fuzzyLog>>
              ELSE /\ dfm' = FlagPair(dfm, idx1, idx2, fuzzy_counter)
                   /\ fuzzy_counter' = fuzzy_counter + 1
                   /\ fuzzyLog' = Append(fuzzyLog, <<idx1, idx2>>)
         ELSE UNCHANGED <<dfm, fuzzy_counter, fuzzyLog>>
  /\ pairPos' = pairPos + 1
  /\ UNCHANGED <<master, parcel, pc, pairs, df_merged, integrity_errors,
                 df_with, df_no, all_errors>>
  /\ UNCHANGED notMerger

\* Step 4 up to the list of integrity errors (lines 340-379).
Merge ==
  /\ pc = "fuzzy"
  /\ pairPos = Len(pairs)
  /\ df_merged' = LeftJoin(dfm, df_m_clean(dfm), 1)
  /\ integrity_errors' = IntegrityErrors(df_merged', 1)
  /\ pc' = "integrity"
  /\ UNCHANGED <<master, parcel, dfm, pairs, pairPos, fuzzy_counter, fuzzyLog,
                 df_with, df_no, all_errors>>
  /\ UNCHANGED notMerger

\* One pass of the loop over integrity_errors (lines 382-387).
ApplyIntegrityError ==
  /\ pc = "integrity"
  /\ integrity_errors # <<>>
  /\ df_merged' = WriteError(df_merged, Head(integrity_errors))
  /\ integrity_errors' = Tail(integrity_errors)
  /\ UNCHANGED <<master, parcel, pc, dfm, pairs, pairPos, fuzzy_counter, fuzzyLog,
                 df_with, df_no, all_errors>>
  /\ UNCHANGED notMerger

\* Step 5: the three sheets (lines 392-398).  The sorts of lines 425-438
\* reorder the rows of a sheet; a sheet is kept as the set of its rows.
Finalize ==
  /\ pc = "integrity"
  /\ integrity_errors = <<>>
  /\ LET df_valid == {r \in Range(df_merged) : r.DATA_STATUS = "CLEAN"}
         df_conflict_post == {r \in Range(df_merged) : r.DATA_STATUS = "ERROR"}
     IN  /\ df_with' = {r \in df_valid : r.HAS_PARCEL = "True"}
         /\ df_no' = {r \in df_valid : r.HAS_PARCEL = "False"}
         /\ all_errors' = {ErrorRow(dfm, m) : m \in df_m_error(dfm)} \cup df_conflict_post
  /\ pc' = "done"
  /\ UNCHANGED <<master, parcel, dfm, pairs, pairPos, fuzzy_counter, fuzzyLog,
                 df_merged, integrity_errors>>
  /\ UNCHANGED notMerger

Next == StrictDuplicates \/ FuzzyPair \/ Merge \/ ApplyIntegrityError \/ Finalize

Spec == Init /\ [][Next]_vars

\* ============================================================ geotag processor
\* ------------------------------------------------------------ numeric cells
\* A cell of a numeric column: a float (held in hundredths), a text, or missing.
Num(h) == [kind |-> "float", n |-> h, s |-> <<>>]
Str(s) == [kind |-> "str", n |-> 0, s |-> s]
Missing == [kind |-> "nan", n |-> 0, s |-> <<>>]

Digits == <<"0","1","2","3","4","5","6","7","8","9">>
IsDigit(c) == \E d \in 1..10 : Digits[d] = c
DigitVal(c) == (CHOOSE d \in 1..10 : Digits[d] = c) - 1
IsDigits(s) == s # <<>> /\ \A i \in 1..Len(s) : IsDigit(s[i])

RECURSIVE DigitsVal(_)
DigitsVal(s) ==
  IF s = <<>> THEN 0 ELSE 10 * DigitsVal(SubSeq(s, 1, Len(s) - 1)) + DigitVal(s[Len(s)])

\* 'sub in s'
Contains(s, sub) ==
  \E i \in 0..(Len(s) - Len(sub)) : SubSeq(s, i + 1, i + Len(sub)) = sub

\* float(text) for a text of digits with at most two decimals, in hundredths;
\* NotFloat is the ValueError.
NotFloat == [ok |-> FALSE, nan |-> FALSE, h |-> 0]
FloatNaN == [ok |-> TRUE, nan |-> TRUE, h |-> 0]
Finite(h) == [ok |-> TRUE, nan |-> FALSE, h |-> h]
ParseFloat(text) ==
  LET s == Strip(text)
      dots == {i \in 1..Len(s) : s[i] = "."}
  IN  IF dots = {}
      THEN IF IsDigits(s) THEN Finite(100 * DigitsVal(s)) ELSE NotFloat
      ELSE LET d == CHOOSE i \in dots : TRUE
               whole == SubSeq(s, 1, d - 1)
               frac == SubSeq(s, d + 1, Len(s))
           IN  IF Cardinality(dots) = 1 /\ IsDigits(whole) /\ IsDigits(frac) /\ Len(frac) <= 2
               THEN Finite(100 * DigitsVal(whole)
                           + (IF Len(frac) = 1 THEN 10 ELSE 1) * DigitsVal(frac))
               ELSE NotFloat

\* float(val)
Float(val) ==
  IF val.kind = "float" THEN Finite(val.n)
  ELSE IF val.kind = "nan" THEN FloatNaN
  ELSE ParseFloat(val.s)

\* ---------------------------------------------- binary floating point, v > a + 2
\* The exponent of the double nearest to k hundredths (k >= 1): the e with
\* 2^e <= k/100 < 2^(e+1).
Exp2(k) ==
  IF k >= 100
  THEN CHOOSE e \in 0..20 : 100 * 2^e <= k /\ k < 100 * 2^(e + 1)
  ELSE 0 - (CHOOSE j \in 1..7 : k * 2^j >= 100 /\ k * 2^(j - 1) < 100)

RECURSIVE Pow2Mod(_, _)
Pow2Mod(n, m) == IF n = 0 THEN 1 % m ELSE (2 * Pow2Mod(n - 1, m)) % m

\* float(v) > float(a) + 2 for the decimals v = a + 2.00, a given in hundredths:
\* both sides are rounded to the nearest double (ties to even), the right side
\* twice (a, then the sum).  With P = 2^n the unit of the sum and q, r the
\* quotient and remainder of a*P by 100, the left side is 2P + q + up1 and the
\* right side 2P + q + up2.
TieIsGreater(a) ==
  IF a = 0 THEN FALSE
  ELSE LET n == 52 - Exp2(a + 200)
           d == Exp2(a + 200) - Exp2(a)
           D == 2^d
           r == (a * Pow2Mod(n, 100)) % 100
           qodd == ((a * Pow2Mod(n, 200)) % 200) >= 100
           up1 == IF r > 50 \/ (r = 50 /\ qodd) THEN 1 ELSE 0
           t0 == (r * D) \div 100
           rem == (r * D) % 100
           floorodd == ((d = 0 /\ qodd) # (t0 % 2 = 1))
           t == t0 + (IF rem > 50 \/ (rem = 50 /\ floorodd) THEN 1 ELSE 0)
           up2 == IF D = 1 THEN t
                  ELSE IF 2 * t < D THEN 0
                  ELSE IF 2 * t > D THEN 1
                  ELSE IF qodd THEN 1 ELSE 0
       IN  up1 > up2

\* float(ver_val) > (float(crop_val) + 2) on two finite floats given in
\* hundredths: away from the tie the roundings are far smaller than 0.01.
GreaterPlus2(v, a) == IF v = a + 200 THEN TieIsGreater(a) ELSE v > a + 200

\* --------------------------------------------------------- normalize_commodity
RICE_KEY  == <<"R","I","C","E">>
PALAY_KEY == <<"P","A","L","A","Y">>
CORN_KEY  == <<"C","O","R","N">>
SUGAR_KEY == <<"S","U","G","A","R">>
SUGARCANE_KEY == <<"S","U","G","A","R","C","A","N","E">>
OTHER_KEY == <<"O","T","H","E","R">>

CornFirst(val) ==
  LET s == Upper(Strip(StrOf(val)))
  IN  IF Contains(s, CORN_KEY) THEN CORN_KEY
      ELSE IF Contains(s, RICE_KEY) \/ Contains(s, PALAY_KEY) THEN RICE_KEY
      ELSE IF Contains(s, SUGAR_KEY) THEN SUGAR_KEY
      ELSE OTHER_KEY
normalize_commodity(val) ==
  LET s == Upper(Strip(StrOf(val)))
  IN  IF Contains(s, RICE_KEY) \/ Contains(s, PALAY_KEY) THEN RICE_KEY
      ELSE IF Contains(s, CORN_KEY) THEN CORN_KEY
      ELSE IF Contains(s, SUGAR_KEY) THEN SUGAR_KEY
      ELSE OTHER_KEY

\* ------------------------------------------------------------------- tables
\* A geotag row (the columns of TARGET_COLS_GEOTAG the processor reads) and a
\* row of the parcel list (KEY_ID, CROP AREA, COMMODITY after the renaming).
GRow(georef, rsbsa, commodity, track, verified, uploader) ==
  [GEOREF_ID |-> georef, RSBSA_ID |-> rsbsa, COMMODITY |-> commodity,
   TRACK_DATE |-> track, VERIFIED_AREA |-> verified, UPLOADER |-> uploader]
RRow(key, area, commodity) == [KEY_ID |-> key, CROP_AREA |-> area, COMMODITY |-> commodity]

\* The mask of load_geotag_parcel_reference: the commodity, as text, contains
\* Rice, Palay, Corn or Sugarcane in any case.
mask(r) ==
  LET s == Upper(StrOf(r.COMMODITY))
  IN  Contains(s, RICE_KEY) \/ Contains(s, PALAY_KEY) \/ Contains(s, CORN_KEY)
      \/ Contains(s, SUGARCANE_KEY)

\* df_geo.duplicated(subset=['GEOREF ID'], keep=False) and the rows
\* drop_duplicates(subset=['GEOREF ID'], keep='first') keeps.
geo_dupe_mask(df, i) == \E j \in DOMAIN df : j # i /\ df[j].GEOREF_ID = df[i].GEOREF_ID
FirstOfGeoref(df, i) == \A j \in 1..(i - 1) : df[j].GEOREF_ID # df[i].GEOREF_ID
KeepAll(df) == df
RECURSIVE KeepFirst(_, _)
KeepFirst(df, i) ==
  IF i > Len(df) THEN <<>>
  ELSE (IF FirstOfGeoref(df, i) THEN <<df[i]>> ELSE <<>>) \o KeepFirst(df, i + 1)
DropDuplicates(df) == KeepFirst(df, 1)

\* is_match
is_match(commodity, commodity_parcel) ==
  IF commodity_parcel.null THEN FALSE
  ELSE normalize_commodity(commodity) = normalize_commodity(commodity_parcel)

\* One row of pd.merge(df_clean_geo, df_parcel, left_on='RSBSA ID',
\* right_on='KEY_ID', how='left') with its is_match; p = 0 is a geotag row
\* without a reference row, its reference columns all missing.  pos is the
\* row's place in the join.
MergedRow(g, p, pos) ==
  [GEOREF_ID |-> g.GEOREF_ID, RSBSA_ID |-> g.RSBSA_ID, COMMODITY |-> g.COMMODITY,
   TRACK_DATE |-> g.TRACK_DATE, VERIFIED_AREA |-> g.VERIFIED_AREA,
   UPLOADER |-> g.UPLOADER,
   KEY_ID |-> IF p = 0 THEN NaN ELSE df_parcel[p].KEY_ID,
   CROP_AREA |-> IF p = 0 THEN Missing ELSE df_parcel[p].CROP_AREA,
   COMMODITY_parcel |-> IF p = 0 THEN NaN ELSE df_parcel[p].COMMODITY,
   is_match |-> is_match(g.COMMODITY, IF p = 0 THEN NaN ELSE df_parcel[p].COMMODITY),
   pos |-> pos]

\* The reference rows a geotag row joins: equal identifiers, compared as read.
Joins(g, p) == ~g.RSBSA_ID.null /\ df_parcel[p].KEY_ID = g.RSBSA_ID

RECURSIVE GeoRightRows(_, _, _)
GeoRightRows(g, p, pos) ==
  IF p > Len(df_parcel) THEN <<>>
  ELSE IF Joins(g, p)
       THEN <<MergedRow(g, p, pos)>> \o GeoRightRows(g, p + 1, pos + 1)
       ELSE GeoRightRows(g, p + 1, pos)

RECURSIVE GeoLeftJoin(_, _, _)
GeoLeftJoin(left, i, pos) ==
  IF i > Len(left) THEN <<>>
  ELSE LET rows == IF GeoRightRows(left[i], 1, pos) = <<>>
                   THEN <<MergedRow(left[i], 0, pos)>>
                   ELSE GeoRightRows(left[i], 1, pos)
       IN  rows \o GeoLeftJoin(left, i + 1, pos + Len(rows))

\* sort_values(by=['GEOREF ID', 'is_match'], ascending=[True, False]): by
\* GEOREF ID (a missing one last), then matching rows first, then as joined.
GeorefLess(a, b) ==
  IF a.null THEN FALSE ELSE IF b.null THEN TRUE ELSE StrLess(a.s, b.s)
JoinOrder(x, y) ==
  IF x.GEOREF_ID # y.GEOREF_ID THEN GeorefLess(x.GEOREF_ID, y.GEOREF_ID)
  ELSE x.pos < y.pos
MatchFirst(x, y) ==
  IF x.GEOREF_ID # y.GEOREF_ID THEN GeorefLess(x.GEOREF_ID, y.GEOREF_ID)
  ELSE IF x.is_match # y.is_match THEN x.is_match
  ELSE x.pos < y.pos

RECURSIVE SortRows(_)
SortRows(S) ==
  IF S = {} THEN <<>>
  ELSE LET first == CHOOSE x \in S : \A y \in S \ {x} : MatchFirst(x, y)
       IN  <<first>> \o SortRows(S \ {first})

\* finalize_crop_area
ID_NOT_FOUND == Str(<<"I","D"," ","N","O","T"," ","F","O","U","N","D">>)
COMMODITY_MISMATCH ==
  Str(<<"C","O","M","M","O","D","I","T","Y"," ","M","I","S","M","A","T","C","H">>)
AreaWhateverCommodity(row) ==
  IF row.KEY_ID.null THEN ID_NOT_FOUND ELSE row.CROP_AREA
finalize_crop_area(row) ==
  IF row.KEY_ID.null THEN ID_NOT_FOUND
  ELSE IF ~row.is_match THEN COMMODITY_MISMATCH
  ELSE row.CROP_AREA

\* pd.to_datetime(TRACK DATE, errors='coerce') on a text 'YYYY-MM-DD', as the
\* number YYYYMMDD; NaT for a missing cell and for any other text.
NaT == 0
temp_track_dt(cell) ==
  IF cell.null THEN NaT
  ELSE LET s == Strip(cell.s)
       IN  IF Len(s) = 10 /\ s[5] = "-" /\ s[8] = "-" /\ IsDigits(SubSeq(s, 1, 4))
              /\ IsDigits(SubSeq(s, 6, 7)) /\ IsDigits(SubSeq(s, 9, 10))
              /\ DigitsVal(SubSeq(s, 6, 7)) \in 1..12
              /\ DigitsVal(SubSeq(s, 9, 10)) \in 1..31
           THEN 10000 * DigitsVal(SubSeq(s, 1, 4)) + 100 * DigitsVal(SubSeq(s, 6, 7))
                + DigitsVal(SubSeq(s, 9, 10))
           ELSE NaT

\* pd.Timestamp("2024-01-01")
cutoff_date == 20240101

\* calc_findings, from the parsed track date, the final CROP AREA and the
\* verified area.
AreaBeforeDate(dt, crop_val, ver_val) ==
  IF crop_val.kind = "str" \/ crop_val.kind = "nan" THEN "NO CROP AREA"
  ELSE IF dt = NaT \/ dt < cutoff_date THEN "INVALID DATE (< 2024)"
  ELSE IF Float(ver_val).ok /\ ~Float(ver_val).nan
          /\ GreaterPlus2(Float(ver_val).h, Float(crop_val).h) THEN "ABOVE"
  ELSE "OK"
calc_findings(dt, crop_val, ver_val) ==
  IF dt = NaT \/ dt < cutoff_date THEN "INVALID DATE (< 2024)"
  ELSE IF crop_val.kind = "str" \/ crop_val.kind = "nan" THEN "NO CROP AREA"
  ELSE IF Float(ver_val).ok /\ ~Float(ver_val).nan
          /\ GreaterPlus2(Float(ver_val).h, Float(crop_val).h) THEN "ABOVE"
  ELSE "OK"

FinalRow(row) ==
  LET area == finalize_crop_area(row)
  IN  [GEOREF_ID |-> row.GEOREF_ID, RSBSA_ID |-> row.RSBSA_ID,
       COMMODITY |-> row.COMMODITY, TRACK_DATE |-> row.TRACK_DATE,
       VERIFIED_AREA |-> row.VERIFIED_AREA, UPLOADER |-> row.UPLOADER,
       KEY_ID |-> row.KEY_ID, COMMODITY_parcel |-> row.COMMODITY_parcel,
       is_match |-> row.is_match, CROP_AREA |-> area, FINDINGS |-> "",
       sum_area |-> 0]

\* pd.to_numeric(VERIFIED AREA (Ha), errors='coerce').fillna(0)
to_numeric_fillna(val) ==
  IF Float(val).ok /\ ~Float(val).nan THEN Num(Float(val).h) ELSE Num(0)

\* Lines 1077-1078 on one row.
WithSumArea(row) ==
  LET ver == to_numeric_fillna(row.VERIFIED_AREA)
  IN  [row EXCEPT !.VERIFIED_AREA = ver,
                  !.sum_area = IF row.FINDINGS = "OK" THEN ver.n ELSE 0]

RECURSIVE SumArea(_)
SumArea(S) ==
  IF S = {} THEN 0
  ELSE LET i == CHOOSE x \in S : TRUE IN i[2].sum_area + SumArea(S \ {i})

\* df_final.groupby('UPLOADER')[['sum_area']].sum(): one row per uploader; the
\* rows without an uploader are in no group.
UploaderSummary(final) ==
  {[UPLOADER |-> u,
    TOTAL |-> SumArea({<<i, final[i]>> : i \in {k \in DOMAIN final : final[k].UPLOADER = u}})] :
     u \in {final[i].UPLOADER : i \in {k \in DOMAIN final : ~final[k].UPLOADER.null}}}

\* ------------------------------------------------------------------- inputs
MaxGeo == 2
MaxRef == 2

G1 == Txt(<<"G","1">>)
G2 == Txt(<<"G","2">>)
OwnGeoref(i) == Txt(<<"G", Digits[i + 1]>>)
Palay     == Txt(<<"P","a","l","a","y">>)
RiceGrain == Txt(<<"r","i","c","e"," ","g","r","a","i","n">>)
RICE      == Txt(<<"R","I","C","E">>)
CornPad   == Txt(<<" ","C","o","r","n"," ">>)
CORN      == Txt(<<"C","O","R","N">>)
RiceCorn  == Txt(<<"R","i","c","e","-","c","o","r","n">>)
SugarCorn == Txt(<<"s","u","g","a","r"," ","c","o","r","n">>)
Sugarcane == Txt(<<"S","u","g","a","r","c","a","n","e">>)
Bananas   == Txt(<<"B","a","n","a","n","a","s">>)
D2023 == Txt(<<"2","0","2","3","-","1","2","-","3","1">>)
D2024 == Txt(<<"2","0","2","4","-","0","1","-","0","1">>)
DMid  == Txt(<<"2","0","2","4","-","0","6","-","1","5">>)
DText == Txt(<<"s","o","o","n">>)
ANA == Txt(<<"A","N","A">>)
BEN == Txt(<<"B","E","N">>)
NotANumber == Str(<<"n","/","a">>)
Text1201 == Str(<<"1","2",".","0","1">>)
Text10 == Str(<<"1","0">>)

\* Geotag files whose GEOREF IDs repeat, against references with several rows
\* of one identifier.
GeoJoinRows ==
  {GRow(G1, IdA, Palay, D2024, Num(150), ANA),
   GRow(G1, IdA, CornPad, D2024, Num(150), ANA),
   GRow(G2, IdA2, Palay, D2024, Num(150), BEN),
   GRow(NaN, NaN, NaN, D2024, Num(150), ANA)}
RefJoinRows ==
  {RRow(IdA, Num(100), RiceGrain), RRow(IdA, Num(300), CORN),
   RRow(IdA, Num(500), SugarCorn), RRow(IdA, Num(700), Bananas)}
GeoJoinInputs ==
  {[g |-> g, r |-> r] : g \in SeqsUpTo(GeoJoinRows, MaxGeo) \ {<<>>},
                        r \in SeqsUpTo(RefJoinRows, MaxRef)}

\* One geotag row against one reference row; track date, verified area,
\* reference area and reference commodity vary.
TrackDates == {NaN, DText, D2023, D2024, DMid}
VerifiedAreas == {Num(1200), Num(1201), Num(247), Num(248), NotANumber, Text1201, Missing}
CropAreas == {Num(1000), Num(47), Text10, Missing}
GeoFindingInputs ==
  {[g |-> <<GRow(G1, IdA, c, d, v, ANA)>>, r |-> <<RRow(IdA, a, RiceGrain)>>] :
     c \in {Palay, RiceCorn, CornPad, Sugarcane}, d \in TrackDates, v \in VerifiedAreas, a \in CropAreas}

\* Files of distinct GEOREF IDs; uploader and verified area vary.
UploaderChoices == {ANA, BEN, NaN} \X {Num(150), NotANumber}
GeoUploaderInputs ==
  {[g |-> [i \in 1..k |-> GRow(OwnGeoref(i), IdA, Palay, DMid, c[i][2], c[i][1])],
    r |-> <<RRow(IdA, Num(100), RICE)>>] :
     k \in 1..MaxGeo, c \in [1..MaxGeo -> UploaderChoices]}

\* A sugarcane geotag row against reference rows that spell the crop in two
\* words, alone or next to a corn row of the same identifier.
SugarCaneSpaced == Txt(<<"S","u","g","a","r"," ","c","a","n","e">>)
GeoMaskInputs ==
  {[g |-> <<GRow(G1, IdA, Sugarcane, D2024, Num(150), ANA)>>, r |-> r] :
     r \in SeqsUpTo({RRow(IdA, Num(100), SugarCaneSpaced), RRow(IdA, Num(300), CORN)},
                    MaxRef) \ {<<>>}}

GeoInputs == GeoJoinInputs \cup GeoFindingInputs \cup GeoUploaderInputs \cup GeoMaskInputs

\* -------------------------------------------------------------- the run
\* The state once both files are read (lines 985-1005, 1020-1032).
InitGeo ==
  /\ \E inp \in GeoInputs : df_geo = inp.g /\ ref = inp.r
  /\ gpc = "mask"
  /\ df_parcel = <<>>
  /\ df_duplicates = {}
  /\ df_clean_geo = <<>>
  /\ geo_merged = <<>>
  /\ df_final = <<>>
  /\ df_summary = {}
  /\ MergerOff
  /\ AggOff
  /\ ToolsOff

\* The commodity mask of load_geotag_parcel_reference (lines 1008-1009).
MaskReference ==
  /\ gpc = "mask"
  /\ df_parcel' = SelectSeq(ref, mask)
  /\ gpc' = "dedupe"
  /\ UNCHANGED <<df_geo, ref, df_duplicates, df_clean_geo, geo_merged, df_final,
                 df_summary>>
  /\ UNCHANGED notGeo

\* Lines 1033-1039: the repeated GEOREF IDs are written out, the first row of
\* each GEOREF ID is kept.
DedupeGeotag ==
  /\ gpc = "dedupe"
  /\ df_duplicates' = {df_geo[i] : i \in {k \in DOMAIN df_geo : geo_dupe_mask(df_geo, k)}}
  /\ df_clean_geo' = DropDuplicates(df_geo)
  /\ gpc' = "join"
  /\ UNCHANGED <<df_geo, ref, df_parcel, geo_merged, df_final, df_summary>>
  /\ UNCHANGED notGeo

\* Lines 1041-1049: the left join, is_match, the sort.
JoinReference ==
  /\ gpc = "join"
  /\ geo_merged' = SortRows(Range(GeoLeftJoin(df_clean_geo, 1, 1)))
  /\ gpc' = "collapse"
  /\ UNCHANGED <<df_geo, ref, df_parcel, df_duplicates, df_clean_geo, df_final,
                 df_summary>>
  /\ UNCHANGED notGeo

\* Lines 1050-1056: one row per GEOREF ID, its CROP AREA resolved.
Collapse ==
  /\ gpc = "collapse"
  /\ LET kept == DropDuplicates(geo_merged)
     IN  df_final' = [i \in DOMAIN kept |-> FinalRow(kept[i])]
  /\ gpc' = "findings"
  /\ UNCHANGED <<df_geo, ref, df_parcel, df_duplicates, df_clean_geo, geo_merged,
                 df_summary>>
  /\ UNCHANGED notGeo

\* Lines 1058-1069: FINDINGS on every row.
Findings ==
  /\ gpc = "findings"
  /\ df_final' = [i \in DOMAIN df_final |->
                    [df_final[i] EXCEPT !.FINDINGS =
                       calc_findings(temp_track_dt(df_final[i].TRACK_DATE),
                                     df_final[i].CROP_AREA, df_final[i].VERIFIED_AREA)]]
  /\ gpc' = "summary"
  /\ UNCHANGED <<df_geo, ref, df_parcel, df_duplicates, df_clean_geo, geo_merged,
                 df_summary>>
  /\ UNCHANGED notGeo

\* Lines 1072-1083: the verified area made numeric, the uploader totals.  The
\* sorts reorder rows only; the join columns line 1074 drops stay on the rows
\* here, nothing reads them afterwards.
Summarize ==
  /\ gpc = "summary"
  /\ df_final' = [i \in DOMAIN df_final |-> WithSumArea(df_final[i])]
  /\ df_summary' = UploaderSummary(df_final')
  /\ gpc' = "written"
  /\ UNCHANGED <<df_geo, ref, df_parcel, df_duplicates, df_clean_geo, geo_merged>>
  /\ UNCHANGED notGeo

NextGeo == MaskReference \/ DedupeGeotag \/ JoinReference \/ Collapse \/ Findings
           \/ Summarize

SpecGeo == InitGeo /\ [][NextGeo]_vars

\* ============================================================ registry analytics
\* A row of the clean workbooks (the columns the aggregation reads) and a row
\* of the erroneous workbook.  province_sheet is the name of the sheet the row
\* was read from.
CRow(prov, mun, bgy, id, farmerFlag, commodity, area, birthday) ==
  [province_sheet |-> prov, farmer_address_mun |-> mun, farmer_address_bgy |-> bgy,
   rsbsa_no |-> id, farmer |-> farmerFlag, commodity |-> commodity, crop_area |-> area,
   birthday |-> birthday]
ERow(prov, mun, bgy, tag) ==
  [province_sheet |-> prov, farmer_address_mun |-> mun, farmer_address_bgy |-> bgy,
   error_tag |-> tag]

\* df[col_prov].unique(): the provinces in order of first appearance.
RECURSIVE Unique(_, _)
Unique(df, i) ==
  IF i > Len(df) THEN <<>>
  ELSE (IF \A j \in 1..(i - 1) : df[j].province_sheet # df[i].province_sheet
        THEN <<df[i].province_sheet>> ELSE <<>>) \o Unique(df, i + 1)

\* The rows of one province, by their place in the table.
prov_df(df, prov) == {i \in DOMAIN df : df[i].province_sheet = prov}

\* fillna('UNKNOWN')
UNKNOWN == Txt(<<"U","N","K","N","O","W","N">>)
fillna_UNKNOWN(cell) == IF cell.null THEN UNKNOWN ELSE cell

\* groupby([col_mun, col_bgy]) over a set of rows: the keys, and the rows of
\* one key.  A row with a missing key column is in no group.
GroupKeys(df, rows) ==
  {<<df[i].farmer_address_mun, df[i].farmer_address_bgy>> :
     i \in {k \in rows : ~df[k].farmer_address_mun.null /\ ~df[k].farmer_address_bgy.null}}
GroupOf(df, rows, key) ==
  {i \in rows : df[i].farmer_address_mun = key[1] /\ df[i].farmer_address_bgy = key[2]}

\* The same after lines 931-932 have filled both key columns.
FilledKeys(df, rows) ==
  {<<fillna_UNKNOWN(df[i].farmer_address_mun), fillna_UNKNOWN(df[i].farmer_address_bgy)>> :
     i \in rows}
FilledGroupOf(df, rows, key) ==
  {i \in rows : /\ fillna_UNKNOWN(df[i].farmer_address_mun) = key[1]
                /\ fillna_UNKNOWN(df[i].farmer_address_bgy) = key[2]}

\* group.drop_duplicates(subset=[col_id]): the first row of each identifier.
unique_farmers(df, group) ==
  {i \in group : \A j \in group : j < i => df[j].rsbsa_no # df[i].rsbsa_no}

\* astype(str).str.upper(), then 1 if 'YES' in x or 'TRUE' in x else 0
IsYes(cell) ==
  LET x == Upper(StrOf(cell))
  IN  Contains(x, <<"Y","E","S">>) \/ Contains(x, <<"T","R","U","E">>)

\* pd.to_numeric(group[col_area], errors='coerce').fillna(0), then a sum over
\* the rows of S, in hundredths.
RECURSIVE AreaSum(_, _)
AreaSum(df, S) ==
  IF S = {} THEN 0
  ELSE LET i == CHOOSE x \in S : TRUE
       IN  to_numeric_fillna(df[i].crop_area).n + AreaSum(df, S \ {i})

\* pd.to_datetime(as_of_input), as the number YYYYMMDD.
ref_date == 20241030

\* The days from 1970-01-01 to the date YYYYMMDD of the Gregorian calendar.
DayNumber(ymd) ==
  LET y   == ymd \div 10000
      m   == (ymd \div 100) % 100
      d   == ymd % 100
      y2  == IF m <= 2 THEN y - 1 ELSE y
      era == y2 \div 400
      yoe == y2 - era * 400
      mp  == (m + 9) % 12
      doy == (153 * mp + 2) \div 5 + d - 1
      doe == yoe * 365 + yoe \div 4 - yoe \div 100 + doy
  IN  era * 146097 + doe - 719468

\* (ref_date - birthday).dt.days: missing when the birthday is NaT.
AgeDays(cell) ==
  LET dt == temp_track_dt(cell)
  IN  IF dt = NaT THEN [nan |-> TRUE, n |-> 0]
      ELSE [nan |-> FALSE, n |-> DayNumber(ref_date) - DayNumber(dt)]

\* df_clean['AGE'] (line 731)
AGE(cell) ==
  LET days == AgeDays(cell)
  IN  IF days.nan THEN days ELSE [nan |-> FALSE, n |-> days.n \div 365]

\* Series.between(lo, hi) and >=, false on a missing age.
between(age, lo, hi) == ~age.nan /\ lo <= age.n /\ age.n <= hi
n_youth_age(df, farmers) == Cardinality({i \in farmers : between(AGE(df[i].birthday), 12, 30)})
n_working(df, farmers) == Cardinality({i \in farmers : between(AGE(df[i].birthday), 31, 59)})
n_senior(df, farmers) ==
  Cardinality({i \in farmers : ~AGE(df[i].birthday).nan /\ AGE(df[i].birthday).n >= 60})

\* get_comm_area(k)
get_comm_area(df, group, k) ==
  AreaSum(df, {i \in group : Contains(Upper(StrOf(df[i].commodity)), k)})

\* The row of the clean summary for one group (lines 745-841).
CleanSummaryRow(df, prov, key, group) ==
  [Province |-> prov, Municipality |-> key[1], Barangay |-> key[2],
   Farmers |-> Cardinality({i \in unique_farmers(df, group) : IsYes(df[i].farmer)}),
   Youth |-> n_youth_age(df, unique_farmers(df, group)),
   Working |-> n_working(df, unique_farmers(df, group)),
   Senior |-> n_senior(df, unique_farmers(df, group)),
   Total_Area |-> AreaSum(df, group),
   Rice_Area |-> get_comm_area(df, group, RICE_KEY) + get_comm_area(df, group, PALAY_KEY),
   Corn_Area |-> get_comm_area(df, group, CORN_KEY)
                 + get_comm_area(df, group, <<"M","A","I","S">>),
   Sugar_Area |-> get_comm_area(df, group, SUGAR_KEY)
                  + get_comm_area(df, group, <<"C","A","N","E">>)]

\* 1 if word in x else 0, summed over the group's tags as text.
TagCount(df, group, word) ==
  Cardinality({i \in group : Contains(StrOf(df[i].error_tag), word)})

\* The row of the erroneous summary for one group (lines 935-946).
ErrSummaryRow(df, prov, key, group) ==
  [Province |-> prov, Municipality |-> key[1], Barangay |-> key[2],
   Total_Errors |-> Cardinality(group),
   Strict_Duplicates |-> TagCount(df, group, <<"D","u","p","l","i","c","a","t","e">>),
   Identity_Conflicts |-> TagCount(df, group, <<"I","d","e","n","t","i","t","y">>),
   Data_Mismatches |-> TagCount(df, group, <<"M","i","s","m","a","t","c","h">>)]

\* ------------------------------------------------------------------- inputs
MaxClean == 2
MaxErr == 2

ILOILO == Txt(<<"I","L","O","I","L","O">>)
CAPIZ  == Txt(<<"C","A","P","I","Z">>)
PAVIA  == Txt(<<"P","A","V","I","A">>)
OTON   == Txt(<<"O","T","O","N">>)
AGANAN == Txt(<<"A","G","A","N","A","N">>)
TagTextDuplicate ==
  Txt(<<"[","D","u","p","l","i","c","a","t","e"," ","R","S","B","S","A"," ","I","D","]"," ">>)
TagTextIdentity ==
  Txt(<<"[","I","d","e","n","t","i","t","y"," ","C","o","n","f","l","i","c","t","]"," ">>)

\* Clean rows: municipality, barangay and area may be missing or not a number.
CleanRows ==
  {CRow(ILOILO, PAVIA, AGANAN, IdA, YES, Palay, Num(150), NaN),
   CRow(ILOILO, PAVIA, AGANAN, IdA, YES, CORN, Num(250), NaN),
   CRow(ILOILO, OTON, NaN, OwnId(2), YES, Palay, Num(100), NaN),
   CRow(ILOILO, NaN, AGANAN, OwnId(3), NO, Sugarcane, Num(300), NaN),
   CRow(ILOILO, PAVIA, AGANAN, OwnId(2), NO, RiceGrain, NotANumber, NaN),
   CRow(CAPIZ, PAVIA, AGANAN, OwnId(3), YES, Palay, Num(500), NaN),
   CRow(CAPIZ, NaN, NaN, OwnId(2), YES, CORN, Missing, NaN)}
ErrRows ==
  {ERow(ILOILO, PAVIA, AGANAN, TagTextDuplicate),
   ERow(ILOILO, PAVIA, NaN, TagTextIdentity),
   ERow(ILOILO, NaN, AGANAN, TagTextDuplicate),
   ERow(ILOILO, OTON, AGANAN, NaN),
   ERow(CAPIZ, NaN, NaN, TagTextIdentity),
   ERow(CAPIZ, PAVIA, AGANAN, TagTextDuplicate)}
\* One barangay whose farmers differ in birthday and commodity.
B1994 == Txt(<<"1","9","9","4","-","1","0","-","3","0">>)
B1993 == Txt(<<"1","9","9","3","-","1","1","-","0","7">>)
B1964 == Txt(<<"1","9","6","4","-","1","1","-","1","4">>)
B1960 == Txt(<<"1","9","6","0","-","0","1","-","1","5">>)
PersonRows ==
  {CRow(ILOILO, PAVIA, AGANAN, IdA, YES, Palay, Num(100), B1994),
   CRow(ILOILO, PAVIA, AGANAN, OwnId(2), YES, Sugarcane, Num(300), B1993),
   CRow(ILOILO, PAVIA, AGANAN, OwnId(3), YES, SugarCorn, Num(200), B1964),
   CRow(ILOILO, PAVIA, AGANAN, IdA, NO, CORN, Num(250), B1960)}
AggPersonInputs ==
  {[c |-> c, e |-> <<>>] : c \in SeqsUpTo(PersonRows, MaxClean) \ {<<>>}}

AggInputs ==
  AggPersonInputs \cup
  {[c |-> c, e |-> e] : c \in SeqsUpTo(CleanRows, MaxClean), e \in {<<>>, <<ERow(CAPIZ, NaN, NaN, TagTextIdentity)>>}}
  \cup {[c |-> c, e |-> e] : c \in {<<>>, <<CRow(ILOILO, OTON, NaN, OwnId(2), YES, Palay, Num(100), NaN)>>},
                             e \in SeqsUpTo(ErrRows, MaxErr)}

\* -------------------------------------------------------------- the run
\* The state once the clean workbooks are loaded (lines 679-690).
InitAgg ==
  /\ \E inp \in AggInputs : df_clean = inp.c /\ df_err = inp.e
  /\ apc = "clean"
  /\ provs = Unique(df_clean, 1)
  /\ clean_outputs = {}
  /\ err_outputs = {}
  /\ MergerOff
  /\ GeoOff
  /\ ToolsOff

\* One pass of the loop of line 739: the summary of one province.
AggregateCleanProvince ==
  /\ apc = "clean"
  /\ provs # <<>>
  /\ LET prov == Head(provs)
         rows == prov_df(df_clean, prov)
     IN  clean_outputs' = clean_outputs \cup
           {CleanSummaryRow(df_clean, prov, key, GroupOf(df_clean, rows, key)) :
              key \in GroupKeys(df_clean, rows)}
  /\ provs' = Tail(provs)
  /\ UNCHANGED <<df_clean, df_err, apc, err_outputs>>
  /\ UNCHANGED notAgg

\* The clean summaries are saved, the erroneous workbook is loaded
\* (lines 847-919).
StartErroneous ==
  /\ apc = "clean"
  /\ provs = <<>>
  /\ apc' = "erroneous"
  /\ provs' = Unique(df_err, 1)
  /\ UNCHANGED <<df_clean, df_err, clean_outputs, err_outputs>>
  /\ UNCHANGED notAgg

\* One pass of the loop of line 927.
AggregateErrProvince ==
  /\ apc = "erroneous"
  /\ provs # <<>>
  /\ LET prov == Head(provs)
         rows == prov_df(df_err, prov)
     IN  err_outputs' = err_outputs \cup
           {ErrSummaryRow(df_err, prov, key, FilledGroupOf(df_err, rows, key)) :
              key \in FilledKeys(df_err, rows)}
  /\ provs' = Tail(provs)
  /\ UNCHANGED <<df_clean, df_err, apc, clean_outputs>>
  /\ UNCHANGED notAgg

\* The erroneous summaries are saved (lines 951-975).
SaveErroneous ==
  /\ apc = "erroneous"
  /\ provs = <<>>
  /\ apc' = "saved"
  /\ UNCHANGED <<df_clean, df_err, provs, clean_outputs, err_outputs>>
  /\ UNCHANGED notAgg

NextAgg == AggregateCleanProvince \/ StartErroneous \/ AggregateErrProvince
           \/ SaveErroneous

SpecAgg == InitAgg /\ [][NextAgg]_vars

\* ============================================================ Excel toolbelt
\* run_cli_app of excel_merger_web.py, from the scan of the input folder to
\* the cleanup.  A file is its name, whether it can be read, and the frame
\* read from it; every file holds one frame.
MaxFiles == 2

XFile(name, kind, columns, rows) ==
  [name |-> name, kind |-> kind, columns |-> columns, rows |-> rows]

EndsWith(s, suf) == Len(s) >= Len(suf) /\ SubSeq(s, Len(s) - Len(suf) + 1, Len(s)) = suf
StartsWith(s, pre) == Len(s) >= Len(pre) /\ SubSeq(s, 1, Len(pre)) = pre
LowerChar(c) ==
  IF \E i \in 1..26 : UpperCase[i] = c
  THEN LowerCase[CHOOSE i \in 1..26 : UpperCase[i] = c] ELSE c
Lower(s) == [i \in 1..Len(s) |-> LowerChar(s[i])]
DOT_XLSX == <<".","x","l","s","x">>
DOT_CSV == <<".","c","s","v">>

\* The test of the listing (line 71).
Listed(name) ==
  /\ EndsWith(Lower(name), DOT_XLSX) \/ EndsWith(Lower(name), DOT_CSV)
  /\ ~StartsWith(name, <<"~","$">>)

\* filename.rsplit('.', 1)[0]
base_filename(name) ==
  IF \E i \in DOMAIN name : name[i] = "."
  THEN SubSeq(name, 1, (CHOOSE i \in DOMAIN name :
                          name[i] = "." /\ \A j \in DOMAIN name : name[j] = "." => j <= i) - 1)
  ELSE name

\* clean_sheet_name
RECURSIVE Without(_, _)
Without(s, chars) ==
  IF s = <<>> THEN <<>>
  ELSE (IF Head(s) \in chars THEN <<>> ELSE <<Head(s)>>) \o Without(Tail(s), chars)
clean_sheet_name(name) ==
  LET kept == Without(name, {"[", "]", ":", "*", "?", "/", "\\"})
  IN  SubSeq(kept, 1, IF Len(kept) < 31 THEN Len(kept) ELSE 31)

\* The loop of lines 196-201: the first of original, original[:28]_1,
\* original[:28]_2, ... that no sheet of the writer has.
RECURSIVE final_sheet_name(_, _, _)
final_sheet_name(original, counter, sheetnames) ==
  LET name == IF counter = 0 THEN original
              ELSE SubSeq(original, 1, IF Len(original) < 28 THEN Len(original) ELSE 28)
                   \o <<"_", Digits[counter + 1]>>
  IN  IF name \in sheetnames THEN final_sheet_name(original, counter + 1, sheetnames)
      ELSE name

\* df.empty
empty(f) == f.rows = <<>> \/ f.columns = <<>>

SameColumnSet(current, expected) == Range(current) # Range(expected)
\* current_columns != expected_columns, a comparison of lists.
Mismatch(current, expected) == current # expected

\* The frame with its Source_File column (line 133).
Tagged(f) ==
  [columns |-> Append(f.columns, "Source_File"),
   rows |-> [k \in DOMAIN f.rows |-> [v |-> f.rows[k], Source_File |-> f.name]]]

\* pd.concat(merged_data, ignore_index=True): the rows in buffer order.
RECURSIVE concat(_)
concat(frames) ==
  IF frames = <<>> THEN <<>> ELSE Head(frames).rows \o concat(Tail(frames))

MarkAlways(marked, name, written) == Append(marked, name)
\* Lines 208-209 and 211: the file is marked once all its frames are written.
Marked(marked, name, written) == IF written THEN Append(marked, name) ELSE marked

Names(files) == [i \in DOMAIN files |-> files[i].name]

\* ------------------------------------------------------------------ inputs
A_XLSX == <<"a",".","x","l","s","x">>
A_CSV  == <<"a",".","C","S","V">>
B_XLSX == <<"b",".","x","l","s","x">>
LOCK_A == <<"~","$","a",".","x","l","s","x">>
IdName == <<"id", "name">>
NameId == <<"name", "id">>
FileChoices ==
  {XFile(A_XLSX, "ok", IdName, <<11, 12>>),
   XFile(A_CSV, "ok", IdName, <<21>>),
   XFile(A_CSV, "unreadable", <<>>, <<>>),
   XFile(B_XLSX, "ok", NameId, <<31>>),
   XFile(B_XLSX, "ok", IdName, <<>>),
   XFile(LOCK_A, "ok", IdName, <<41>>)}
Listings ==
  {l \in SeqsUpTo(FileChoices, MaxFiles) :
     \A i, j \in DOMAIN l : i # j => l[i].name # l[j].name}

\* -------------------------------------------------------------- the run
\* The state once the folder is scanned and the operation chosen
\* (lines 67-100); the scan loops until it finds a file.
InitXls ==
  /\ \E l \in Listings :
       /\ all_files = SelectSeq(l, LAMBDA f : Listed(f.name))
       /\ input_dir = {l[i].name : i \in DOMAIN l}
  /\ all_files # <<>>
  /\ choice \in {"1", "2"}
  /\ xpc = IF choice = "1" THEN "stack" ELSE "combine"
  /\ xi = 1
  /\ expected_columns = NoColumns
  /\ validation_errors = <<>>
  /\ merged_data = <<>>
  /\ writer = <<>>
  /\ files_to_delete = <<>>
  /\ removing = <<>>
  /\ output = NoWorkbook
  /\ MergerOff
  /\ GeoOff
  /\ AggOff
  /\ RunOff
  /\ SpinOff

\* One pass of the loop of line 109: read and validate one file.
StackFile ==
  /\ xpc = "stack"
  /\ xi <= Len(all_files)
  /\ LET f == all_files[xi]
         rejected == /\ validation_errors' = Append(validation_errors, f.name)
                     /\ UNCHANGED <<expected_columns, merged_data>>
     IN  IF f.kind = "unreadable" \/ empty(f) THEN rejected
         ELSE IF ~expected_columns.set
              THEN /\ expected_columns' = [set |-> TRUE, cols |-> f.columns]
                   /\ merged_data' = Append(merged_data, Tagged(f))
                   /\ UNCHANGED validation_errors
              ELSE IF Mismatch(f.columns, expected_columns.cols) THEN rejected
                   ELSE /\ merged_data' = Append(merged_data, Tagged(f))
                        /\ UNCHANGED <<expected_columns, validation_errors>>
  /\ xi' = xi + 1
  /\ UNCHANGED <<xpc, choice, all_files, writer, files_to_delete, removing, output, input_dir>>
  /\ UNCHANGED notXls

\* After the loop (lines 140-148): stop on a validation error.
StackValidate ==
  /\ xpc = "stack"
  /\ xi > Len(all_files)
  /\ xpc' = IF validation_errors # <<>> THEN "exit"
            ELSE IF merged_data # <<>> THEN "save" ELSE "exit"
  /\ UNCHANGED <<choice, all_files, xi, expected_columns, validation_errors, merged_data,
                 writer, files_to_delete, removing, output, input_dir>>
  /\ UNCHANGED notXls

\* Lines 150-167: concatenate and save; the save succeeds or raises.
StackSave ==
  /\ xpc = "save"
  /\ \E saved \in BOOLEAN :
       IF saved
       THEN /\ output' = [saved |-> TRUE, rows |-> concat(merged_data), sheets |-> <<>>]
            /\ removing' = Names(all_files)
            /\ xpc' = "cleanup"
       ELSE /\ xpc' = "exit"
            /\ UNCHANGED <<output, removing>>
  /\ UNCHANGED <<choice, all_files, xi, expected_columns, validation_errors, merged_data,
                 writer, files_to_delete, input_dir>>
  /\ UNCHANGED notXls

\* One pass of the loop of line 179: read one file and write its frame to
\* the open writer; reading or writing may raise.
CombineFile ==
  /\ xpc = "combine"
  /\ xi <= Len(all_files)
  /\ LET f == all_files[xi]
         sheet == final_sheet_name(clean_sheet_name(base_filename(f.name)), 0,
                                   {writer[k].name : k \in DOMAIN writer})
     IN  \E written \in (IF f.kind = "unreadable" THEN {FALSE} ELSE BOOLEAN) :
           /\ writer' = IF written
                        THEN Append(writer, [name |-> sheet, columns |-> f.columns,
                                             rows |-> f.rows])
                        ELSE writer
           /\ files_to_delete' = Marked(files_to_delete, f.name, written)
  /\ xi' = xi + 1
  /\ UNCHANGED <<xpc, choice, all_files, expected_columns, validation_errors, merged_data,
                 removing, output, input_dir>>
  /\ UNCHANGED notXls

\* The writer is closed (lines 213-232): the save succeeds or raises.
CombineSave ==
  /\ xpc = "combine"
  /\ xi > Len(all_files)
  /\ \E saved \in BOOLEAN :
       IF saved
       THEN /\ output' = [saved |-> TRUE, rows |-> <<>>, sheets |-> writer]
            /\ removing' = files_to_delete
            /\ xpc' = "cleanup"
       ELSE /\ xpc' = "exit"
            /\ UNCHANGED <<output, removing>>
  /\ UNCHANGED <<choice, all_files, xi, expected_columns, validation_errors, merged_data,
                 writer, files_to_delete, input_dir>>
  /\ UNCHANGED notXls

\* One pass of a cleanup loop (lines 157-162, 222-227): os.remove succeeds
\* or raises, and the loop goes on.
Remove ==
  /\ xpc = "cleanup"
  /\ removing # <<>>
  /\ \E removed \in BOOLEAN :
       input_dir' = IF removed THEN input_dir \ {Head(removing)} ELSE input_dir
  /\ removing' = Tail(removing)
  /\ UNCHANGED <<xpc, choice, all_files, xi, expected_columns, validation_errors,
                 merged_data, writer, files_to_delete, output>>
  /\ UNCHANGED notXls

\* The cleanup loop ends.
CleanupDone ==
  /\ xpc = "cleanup"
  /\ removing = <<>>
  /\ xpc' = "exit"
  /\ UNCHANGED <<choice, all_files, xi, expected_columns, validation_errors, merged_data,
                 writer, files_to_delete, removing, output, input_dir>>
  /\ UNCHANGED notXls

NextXls ==
  \/ StackFile
  \/ StackValidate
  \/ StackSave
  \/ CombineFile
  \/ CombineSave
  \/ Remove
  \/ CleanupDone

SpecXls == InitXls /\ [][NextXls]_vars

\* ============================================================ runs and files
\* The pipelines seen from their files: which columns the inputs have, which
\* steps run, and which workbooks of the output folder get written.  The
\* inputs can be read; a step that computes or saves may raise, and the
\* handler's except clause then ends the run.

\* A column as the file spells it: its name, padded with blanks or not, in
\* the expected letter case or another.
Col(name) == [name |-> name, pad |-> FALSE, exact |-> TRUE]

\* [c.strip().lower() for c in columns], c.upper() == '...': padding and
\* letter case are both ignored.
folded(columns) == {c.name : c \in columns}
\* [c.strip() for c in columns]: the letter case stays.
stripped(columns) == {c.name : c \in {x \in columns : x.exact}}

MASTER_KEY == {"rsbsa_no"}
PARCEL_KEY == {"ffrs system generated no."}
REFERENCE_COLS == {"FFRS SYSTEM GENERATED NO.", "CROP AREA", "COMMODITY NAME"}
TARGET_COLS_GEOTAG ==
  {"GEOREF ID", "RSBSA ID", "COMMODITY", "DECLARED AREA (Ha)", "VERIFIED AREA (Ha)",
   "PROVINCE", "MUNICIPALITY", "BARANGAY", "UPLOADER", "TRACK DATE"}

NoneMissing(names, required) == {}
\* [c for c in required if c not in names]
missing(names, required) == required \ names

\* The workbooks of the output folder.
MERGED == "-merged.xlsx"
DUPLICATES == " [duplicates].xlsx"
CLEAN_ENRICHED == " [clean_enriched].xlsx"
REGIONAL == <<"Regional_With_Parcels.xlsx", "Regional_No_Parcels.xlsx",
              "Regional_Erroneous.xlsx">>
Workbooks == {MERGED, DUPLICATES, CLEAN_ENRICHED} \cup Range(REGIONAL)
\* pd.ExcelWriter(path) closed without an error.
Written(folder, path) == [folder EXCEPT ![path] = "new"]

\* ------------------------------------------------------------------ inputs
\* A file with the required columns, with one of them absent, padded, or in
\* another letter case.
Intact(required) == {Col(c) : c \in required}
FileVariants(required) ==
  {Intact(required)}
  \cup {Intact(required \ {c}) : c \in required}
  \cup {Intact(required \ {c}) \cup {[name |-> c, pad |-> TRUE, exact |-> TRUE]} : c \in required}
  \cup {Intact(required \ {c}) \cup {[name |-> c, pad |-> FALSE, exact |-> FALSE]} : c \in required}

Schema(m_cols, p_cols, reference, geotag, duplicates, province_match, provinces) ==
  [master |-> m_cols, parcel |-> p_cols, reference |-> reference, geotag |-> geotag,
   duplicates |-> duplicates, province_match |-> province_match, provinces |-> provinces]

MergerSchemas ==
  {Schema(m, p, {}, {}, FALSE, TRUE, <<>>) :
     m \in FileVariants(MASTER_KEY), p \in FileVariants(PARCEL_KEY)}
GeotagSchemas ==
  {Schema({}, {}, r, g, d, pm, <<>>) :
     r \in FileVariants(REFERENCE_COLS), g \in FileVariants(TARGET_COLS_GEOTAG),
     d \in BOOLEAN, pm \in BOOLEAN}
\* The provinces detected in the files of the input folder, in listing order.
ConsolidationSchemas ==
  {Schema({}, {}, {}, {}, FALSE, TRUE, p) :
     p \in {<<>>, <<"AKLAN">>, <<"AKLAN", "ILOILO">>, <<"AKLAN", "AKLAN">>}}

\* -------------------------------------------------------------- the runs
InitRun ==
  /\ \/ job = "merger" /\ schema \in MergerSchemas /\ rpc = "load_master"
     \/ job = "geotag" /\ schema \in GeotagSchemas /\ rpc = "load_reference"
     \/ job = "consolidation" /\ schema \in ConsolidationSchemas /\ rpc = "scan"
  /\ disk \in {[w \in Workbooks |-> "absent"], [w \in Workbooks |-> "old"]}
  /\ pending = <<>>
  /\ outcome = ""
  /\ MergerOff
  /\ GeoOff
  /\ AggOff
  /\ XlsOff
  /\ SpinOff

\* A step of the run: where it goes next, with what result.
Step(next, result) ==
  /\ rpc' = next
  /\ outcome' = result
  /\ UNCHANGED <<job, schema>>
  /\ UNCHANGED notRun

\* process_masterlist_merger, lines 252-266.
LoadMaster ==
  /\ rpc = "load_master"
  /\ IF missing(folded(schema.master), MASTER_KEY) # {}
     THEN Step("end", "column not found")
     ELSE Step("load_parcel", "")
  /\ UNCHANGED <<disk, pending>>

\* Lines 268-285.
LoadParcel ==
  /\ rpc = "load_parcel"
  /\ IF missing(folded(schema.parcel), PARCEL_KEY) # {}
     THEN Step("end", "column not found")
     ELSE Step("triage", "")
  /\ UNCHANGED <<disk, pending>>

\* Lines 287-438: the triage, the join and the sheets are computed, or an
\* exception ends the run at line 467.
Triage ==
  /\ rpc = "triage"
  /\ \E raised \in BOOLEAN :
       IF raised THEN Step("end", "error") ELSE Step("save_merged", "")
  /\ UNCHANGED <<disk, pending>>

\* Lines 440-468: the three sheets go to one workbook through one writer.
SaveMerged ==
  /\ rpc = "save_merged"
  /\ \E raised \in BOOLEAN :
       IF raised
       THEN Step("end", "error") /\ UNCHANGED disk
       ELSE Step("end", "processed") /\ disk' = Written(disk, MERGED)
  /\ UNCHANGED pending

\* load_geotag_parcel_reference (lines 987-993) and its caller
\* (lines 1100-1101).
LoadReference ==
  /\ rpc = "load_reference"
  /\ IF missing(folded(schema.reference), REFERENCE_COLS) # {}
     THEN Step("end", "error loading parcel list")
     ELSE Step("check_geotag", "")
  /\ UNCHANGED <<disk, pending>>

\* process_single_geotag_logic, lines 1019-1030: the column check, then the
\* province check.
CheckGeotag ==
  /\ rpc = "check_geotag"
  /\ IF missing(stripped(schema.geotag), TARGET_COLS_GEOTAG) # {}
     THEN Step("end", "missing columns")
     ELSE IF ~schema.province_match THEN Step("end", "province mismatch")
          ELSE Step("duplicates", "")
  /\ UNCHANGED <<disk, pending>>

\* Lines 1032-1039: the duplicated rows, when there are any, are saved to the
\* duplicates workbook.
WriteDuplicates ==
  /\ rpc = "duplicates"
  /\ IF schema.duplicates
     THEN \E raised \in BOOLEAN :
            IF raised
            THEN Step("end", "error") /\ UNCHANGED disk
            ELSE Step("enrich", "") /\ disk' = Written(disk, DUPLICATES)
     ELSE Step("enrich", "") /\ UNCHANGED disk
  /\ UNCHANGED pending

\* Lines 1041-1083: the join, the collapse, the findings and the summary.
Enrich ==
  /\ rpc = "enrich"
  /\ \E raised \in BOOLEAN :
       IF raised THEN Step("end", "error") ELSE Step("save_enriched", "")
  /\ UNCHANGED <<disk, pending>>

\* Lines 1085-1094.
SaveEnriched ==
  /\ rpc = "save_enriched"
  /\ \E raised \in BOOLEAN :
       IF raised
       THEN Step("end", "error") /\ UNCHANGED disk
       ELSE Step("end", "processed") /\ disk' = Written(disk, CLEAN_ENRICHED)
  /\ UNCHANGED pending

\* run_regional_consolidation, lines 527-608: a province found twice, or no
\* province at all, ends the run.
ScanProvinces ==
  /\ rpc = "scan"
  /\ LET p == schema.provinces
     IN  IF \E i, j \in DOMAIN p : i < j /\ p[i] = p[j]
         THEN Step("end", "duplicate files") /\ UNCHANGED pending
         ELSE IF p = <<>> THEN Step("end", "no valid province files") /\ UNCHANGED pending
              ELSE Step("generate", "") /\ pending' = REGIONAL
  /\ UNCHANGED disk

\* One pass of the loop of line 618: one regional workbook is saved, or an
\* exception ends the run at line 636.
Generate ==
  /\ rpc = "generate"
  /\ pending # <<>>
  /\ \E raised \in BOOLEAN :
       IF raised
       THEN Step("end", "error") /\ UNCHANGED <<disk, pending>>
       ELSE /\ Step(IF Len(pending) = 1 THEN "end" ELSE "generate",
                    IF Len(pending) = 1 THEN "processed" ELSE "")
            /\ disk' = Written(disk, Head(pending))
            /\ pending' = Tail(pending)

NextRun ==
  \/ LoadMaster
  \/ LoadParcel
  \/ Triage
  \/ SaveMerged
  \/ LoadReference
  \/ CheckGeotag
  \/ WriteDuplicates
  \/ Enrich
  \/ SaveEnriched
  \/ ScanProvinces
  \/ Generate

SpecRun == InitRun /\ [][NextRun]_vars

\* ============================================================ LoadingSpinner
\* `with LoadingSpinner(...)`: the main thread enters the scope, runs the
\* computation inside it and leaves; the spinner thread runs spinner_task.
\* Every line of either thread is one step, and the steps of the two threads
\* interleave freely.
MaxWork == 2

\* The exceptions the computation may raise.
Exceptions == {"KeyError", "ValueError"}
\* The four frames of itertools.cycle(['|', '/', '-', '\\']).
Frames == 4

NoJoin(thread) == TRUE
\* thread.join() returns once the thread has terminated.
joined(thread) == thread = "dead"

\* __exit__ returns None: the exception in flight is not suppressed.
suppressed == FALSE

InitSpin ==
  /\ mpc = "enter"
  /\ spc = "unborn"
  /\ busy = FALSE
  /\ glyph = 0
  /\ screen_lock = ""
  /\ stdout = ""
  /\ work = 0
  /\ exc = ""
  /\ MergerOff
  /\ GeoOff
  /\ AggOff
  /\ XlsOff
  /\ RunOff

\* __enter__, line 97.
EnterBusy ==
  /\ mpc = "enter"
  /\ busy' = TRUE
  /\ mpc' = "start"
  /\ UNCHANGED <<spc, glyph, screen_lock, stdout, work, exc>>
  /\ UNCHANGED notSpin

\* __enter__, lines 98-99: the thread is created and started, and the body of
\* the with statement comes next.
StartThread ==
  /\ mpc = "start"
  /\ spc' = "check"
  /\ mpc' = "body"
  /\ UNCHANGED <<busy, glyph, screen_lock, stdout, work, exc>>
  /\ UNCHANGED notSpin

\* The computation inside the scope makes progress.
Compute ==
  /\ mpc = "body"
  /\ work < MaxWork
  /\ work' = work + 1
  /\ UNCHANGED <<mpc, spc, busy, glyph, screen_lock, stdout, exc>>
  /\ UNCHANGED notSpin

\* The computation prints a message (as at line 261).
PrintMessage ==
  /\ mpc = "body"
  /\ stdout' = "message"
  /\ UNCHANGED <<mpc, spc, busy, glyph, screen_lock, work, exc>>
  /\ UNCHANGED notSpin

\* The computation raises: the scope is left with the exception in flight.
Raise ==
  /\ mpc = "body"
  /\ exc' \in Exceptions
  /\ mpc' = "exit"
  /\ UNCHANGED <<spc, busy, glyph, screen_lock, stdout, work>>
  /\ UNCHANGED notSpin

\* The computation completes or returns: the scope is left normally.
Complete ==
  /\ mpc = "body"
  /\ mpc' = "exit"
  /\ UNCHANGED <<spc, busy, glyph, screen_lock, stdout, work, exc>>
  /\ UNCHANGED notSpin

\* __exit__, line 102.
ExitBusy ==
  /\ mpc = "exit"
  /\ busy' = FALSE
  /\ mpc' = "join"
  /\ UNCHANGED <<spc, glyph, screen_lock, stdout, work, exc>>
  /\ UNCHANGED notSpin

\* __exit__, line 103.
Join ==
  /\ mpc = "join"
  /\ joined(spc)
  /\ mpc' = "clear"
  /\ UNCHANGED <<spc, busy, glyph, screen_lock, stdout, work, exc>>
  /\ UNCHANGED notSpin

\* __exit__, lines 104-105, and its return: control continues after the with
\* statement, with the exception unless __exit__ suppressed it.
ClearLine ==
  /\ mpc = "clear"
  /\ stdout' = "cleared"
  /\ exc' = IF suppressed THEN "" ELSE exc
  /\ mpc' = "after"
  /\ UNCHANGED <<spc, busy, glyph, screen_lock, work>>
  /\ UNCHANGED notSpin

\* spinner_task, line 90: the loop test.
TestBusy ==
  /\ spc = "check"
  /\ spc' = IF busy THEN "lock" ELSE "dead"
  /\ UNCHANGED <<mpc, busy, glyph, screen_lock, stdout, work, exc>>
  /\ UNCHANGED notSpin

\* Line 91: the screen lock is taken.
AcquireLock ==
  /\ spc = "lock"
  /\ screen_lock = ""
  /\ screen_lock' = "spinner"
  /\ spc' = "write"
  /\ UNCHANGED <<mpc, busy, glyph, stdout, work, exc>>
  /\ UNCHANGED notSpin

\* Lines 92-93: the next frame is written, and the lock released.
WriteFrame ==
  /\ spc = "write"
  /\ glyph' = (glyph + 1) % Frames
  /\ stdout' = "frame"
  /\ screen_lock' = ""
  /\ spc' = "sleep"
  /\ UNCHANGED <<mpc, busy, work, exc>>
  /\ UNCHANGED notSpin

\* Line 94.
Sleep ==
  /\ spc = "sleep"
  /\ spc' = "erase"
  /\ UNCHANGED <<mpc, busy, glyph, screen_lock, stdout, work, exc>>
  /\ UNCHANGED notSpin

\* Line 95, then back to the loop test.
EraseFrame ==
  /\ spc = "erase"
  /\ stdout' = "erased"
  /\ spc' = "check"
  /\ UNCHANGED <<mpc, busy, glyph, screen_lock, work, exc>>
  /\ UNCHANGED notSpin

NextSpin ==
  \/ EnterBusy
  \/ StartThread
  \/ Compute
  \/ PrintMessage
  \/ Raise
  \/ Complete
  \/ ExitBusy
  \/ Join
  \/ ClearLine
  \/ TestBusy
  \/ AcquireLock
  \/ WriteFrame
  \/ Sleep
  \/ EraseFrame

SpecSpin == InitSpin /\ [][NextSpin]_vars

\* ===================================================================== claims
HasTag(tags, kind) == \E n \in DOMAIN tags : tags[n].kind = kind
Sheets == df_with \cup df_no \cup all_errors
\* The strict key of masterlist row i: its identifier trimmed and upper-cased.
StrictKey(i) == Upper(Strip(StrOf(master[i].rsbsa_no)))
Occurrences(i) == Cardinality({j \in DOMAIN master : StrictKey(j) = StrictKey(i)})

\* C1: every masterlist row whose strict key k occurs on two or more rows is
\* ERROR once the strict step has run, carries '[Duplicate RSBSA ID]' and the
\* group STRICT-k to the end of the run, and is written to the erroneous sheet
\* and to neither clean sheet.
StrictDuplicateCompleteness ==
  pc # "strict" =>
    \A i \in DOMAIN master :
      Occurrences(i) >= 2 =>
        /\ dfm[i].DATA_STATUS = "ERROR"
        /\ HasTag(dfm[i].ERROR_TAG, "[Duplicate RSBSA ID] ")
        /\ dfm[i].CONFLICT_GROUP = <<"STRICT-", StrictKey(i)>>
        /\ pc = "done" =>
             /\ \E r \in all_errors :
                  /\ r.m = i /\ r.DATA_STATUS = "ERROR"
                  /\ HasTag(r.ERROR_TAG, "[Duplicate RSBSA ID] ")
                  /\ r.CONFLICT_GROUP = <<"STRICT-", StrictKey(i)>>
             /\ \A r \in df_with \cup df_no : r.m # i

\* C1 witness: a finished run over two rows whose identifiers differ as
\* written and are one strict key.
StrictDuplicateWitness ==
  /\ pc = "done"
  /\ \E i, j \in DOMAIN master :
       /\ i # j /\ master[i].rsbsa_no # master[j].rsbsa_no
       /\ StrictKey(i) = StrictKey(j)
       /\ dfm[i].DATA_STATUS = "ERROR"

InSheet(S, m) == IF \E r \in S : r.m = m THEN 1 ELSE 0

\* C2: after a finished run every masterlist row is in exactly one of the
\* three sheets.
PartitionDisjointness ==
  pc = "done" =>
    \A m \in DOMAIN master :
      InSheet(df_with, m) + InSheet(df_no, m) + InSheet(all_errors, m) = 1

GroupIffError(r) == (r.CONFLICT_GROUP # <<>>) <=> (r.DATA_STATUS = "ERROR")

\* C3: in every state of the run, and in the three sheets, a row has a
\* conflict group exactly when its status is ERROR.
ConflictGroupIffError ==
  /\ \A i \in DOMAIN dfm : GroupIffError(dfm[i])
  /\ \A k \in DOMAIN df_merged : GroupIffError(df_merged[k])
  /\ \A r \in Sheets : GroupIffError(r)

\* C3 witness: a finished run with a data-mismatch row, an identity-conflict
\* row and a clean row.
ConflictGroupWitness ==
  /\ pc = "done"
  /\ \E r \in all_errors : HasTag(r.ERROR_TAG, "[Data Mismatch] ")
  /\ \E r \in all_errors : HasTag(r.ERROR_TAG, "[Identity Conflict] ")
  /\ df_with \cup df_no # {}

\* C4: every row starts CLEAN, and no step takes a row of df_m or of the
\* joined table from ERROR back to CLEAN.
TriageStatusMonotone ==
  /\ \A i \in DOMAIN dfm : dfm[i].DATA_STATUS = "CLEAN"
  /\ [][/\ \A i \in DOMAIN dfm :
             dfm[i].DATA_STATUS = "ERROR" => dfm'[i].DATA_STATUS = "ERROR"
        /\ \A k \in DOMAIN df_merged :
             df_merged[k].DATA_STATUS = "ERROR" =>
               k \in DOMAIN df_merged' /\ df_merged'[k].DATA_STATUS = "ERROR"]_vars

\* C4 witness: a finished run in which a row flagged by an earlier pair was
\* visited again in a later, vetoed pair, and is still ERROR.
TriageStatusWitness ==
  /\ pc = "done"
  /\ \E a, b \in DOMAIN pairs :
       /\ a < b
       /\ pairs[a] \in Range(fuzzyLog)
       /\ pairs[b][1] = pairs[a][1]
       /\ SexVeto(master[pairs[b][1]], master[pairs[b][2]])
       /\ dfm[pairs[a][1]].DATA_STATUS = "ERROR"

\* A gender value that is there: not missing and not blank.
GenderPresent(r) == ~r.gender.null /\ Strip(r.gender.s) # <<>>
OppositeGenders(r1, r2) ==
  /\ GenderPresent(r1) /\ GenderPresent(r2)
  /\ Upper(Strip(r1.gender.s)) # Upper(Strip(r2.gender.s))
Ratio(i, j) == similar(Upper(Strip(StrOf(master[i].first_name))),
                       Upper(Strip(StrOf(master[j].first_name))))

\* C5: when the fuzzy loop visits a pair whose names pass the cutoff and whose
\* genders are both present and differ, the step changes no status, tag or
\* group and mints no FUZZY group.
FuzzyMatchVeto ==
  [][(/\ pc = "fuzzy" /\ pairPos < Len(pairs)
      /\ LET p == pairs[pairPos + 1]
         IN  /\ Ratio(p[1], p[2])[1] * 100 > 85 * Ratio(p[1], p[2])[2]
             /\ OppositeGenders(master[p[1]], master[p[2]]))
     => (dfm' = dfm /\ fuzzy_counter' = fuzzy_counter /\ fuzzyLog' = fuzzyLog)]_vars

\* C5 witness: a finished run that visited such a pair and left both rows CLEAN.
FuzzyMatchVetoWitness ==
  /\ pc = "done"
  /\ \E n \in DOMAIN pairs :
       LET p == pairs[n]
       IN  /\ Ratio(p[1], p[2])[1] * 100 > 85 * Ratio(p[1], p[2])[2]
           /\ OppositeGenders(master[p[1]], master[p[2]])
           /\ dfm[p[1]].DATA_STATUS = "CLEAN" /\ dfm[p[2]].DATA_STATUS = "CLEAN"

Processed(n) == n \in 1..pairPos
Flagged(p) == p \in Range(fuzzyLog)

\* C6: a visited pair whose names pass the cutoff, and of which at least one
\* gender is missing or blank, is not vetoed: it is flagged.
VetoNeedsBothGenders ==
  \A n \in DOMAIN pairs :
    LET p == pairs[n]
    IN  (/\ Processed(n)
         /\ Ratio(p[1], p[2])[1] * 100 > 85 * Ratio(p[1], p[2])[2]
         /\ ~(GenderPresent(master[p[1]]) /\ GenderPresent(master[p[2]])))
        => Flagged(p)

\* A candidate pair: two rows of one loose signature, both CLEAN after the
\* strict step (their strict keys occur once), the gender check not skipping it.
LooseSignature(i) ==
  Upper(Strip(IF master[i].last_name.null THEN <<>> ELSE master[i].last_name.s))
    \o StrOf(master[i].birthday)
CandidatePairs ==
  {p \in (DOMAIN master) \X (DOMAIN master) :
     /\ p[1] < p[2]
     /\ LooseSignature(p[1]) = LooseSignature(p[2])
     /\ Occurrences(p[1]) = 1 /\ Occurrences(p[2]) = 1
     /\ ~SexVeto(master[p[1]], master[p[2]])}
FuzzyDone == pc \in {"integrity", "done"}

LastPairOf(i) ==
  CHOOSE n \in DOMAIN fuzzyLog :
    /\ i \in {fuzzyLog[n][1], fuzzyLog[n][2]}
    /\ \A k \in DOMAIN fuzzyLog : i \in {fuzzyLog[k][1], fuzzyLog[k][2]} => k <= n

\* C8 as claimed: at the end of the run the two rows of every flagged pair are
\* ERROR, tagged '[Identity Conflict]', and carry one and the same group.
FlaggedPairSharesGroup ==
  pc = "done" =>
    \A n \in DOMAIN fuzzyLog :
      LET i == fuzzyLog[n][1]
          j == fuzzyLog[n][2]
      IN  /\ dfm[i].DATA_STATUS = "ERROR" /\ dfm[j].DATA_STATUS = "ERROR"
          /\ HasTag(dfm[i].ERROR_TAG, "[Identity Conflict] ")
          /\ HasTag(dfm[j].ERROR_TAG, "[Identity Conflict] ")
          /\ dfm[i].CONFLICT_GROUP = dfm[j].CONFLICT_GROUP

\* C8 as amended: from the step that flags a pair on, both rows are ERROR and
\* tagged '[Identity Conflict]', and each row carries the group of the last
\* flagged pair it is part of; so the two rows share a group when no later
\* flagged pair holds one of them.
FlaggedPairLastGroup ==
  \A n \in DOMAIN fuzzyLog :
    LET i == fuzzyLog[n][1]
        j == fuzzyLog[n][2]
    IN  /\ dfm[i].DATA_STATUS = "ERROR" /\ dfm[j].DATA_STATUS = "ERROR"
        /\ HasTag(dfm[i].ERROR_TAG, "[Identity Conflict] ")
        /\ HasTag(dfm[j].ERROR_TAG, "[Identity Conflict] ")
        /\ dfm[i].CONFLICT_GROUP = <<"FUZZY-", LastPairOf(i)>>
        /\ dfm[j].CONFLICT_GROUP = <<"FUZZY-", LastPairOf(j)>>
        /\ (LastPairOf(i) = n /\ LastPairOf(j) = n)
             => dfm[i].CONFLICT_GROUP = dfm[j].CONFLICT_GROUP
        /\ pc = "done" =>
             \E r \in all_errors :
               r.m = j /\ r.CONFLICT_GROUP = <<"FUZZY-", LastPairOf(j)>>
                       /\ HasTag(r.ERROR_TAG, "[Identity Conflict] ")

\* C8 witness: a finished run over three mutually similar rows: three flagged
\* pairs, of which one shares its group and one does not.
FlaggedPairWitness ==
  /\ pc = "done"
  /\ Len(fuzzyLog) >= 3
  /\ \E n \in DOMAIN fuzzyLog :
       dfm[fuzzyLog[n][1]].CONFLICT_GROUP = dfm[fuzzyLog[n][2]].CONFLICT_GROUP
  /\ \E n \in DOMAIN fuzzyLog :
       dfm[fuzzyLog[n][1]].CONFLICT_GROUP # dfm[fuzzyLog[n][2]].CONFLICT_GROUP

\* C9: a row that is ERROR when the join runs is not joined; it is written to
\* the erroneous sheet once, with every parcel column missing, and to neither
\* clean sheet; every joined row comes from a CLEAN row.
QuarantineBeforeJoin ==
  FuzzyDone =>
    /\ \A k \in DOMAIN df_merged : dfm[df_merged[k].m].CONFLICT_GROUP = <<>>
    /\ \A m \in DOMAIN dfm :
         dfm[m].DATA_STATUS = "ERROR" =>
           /\ \A k \in DOMAIN df_merged : df_merged[k].m # m
           /\ pc = "done" =>
                /\ \A r \in df_with \cup df_no : r.m # m
                /\ \E r \in all_errors : r.m = m
                /\ \A r \in all_errors :
                     r.m = m => /\ r.p = 0
                                /\ r.HAS_PARCEL = "NaN"
                                /\ r.HAS_MULTIPLE_LAND_HOLDINGS = "NaN"

\* C9 witness: a finished run in which an ERROR row's key has a parcel row.
QuarantineWitness ==
  /\ pc = "done"
  /\ \E m \in DOMAIN dfm :
       /\ dfm[m].DATA_STATUS = "ERROR"
       /\ \E j \in DOMAIN parcel :
            Upper(Strip(StrOf(parcel[j].ffrs_no))) = StrictKey(m)

\* A value that is there: the cell is not missing and not blank.
Present(c) == ~c.null /\ Strip(c.s) # <<>>
\* The checked fields of a joined row on which both values are there and
\* differ once trimmed and upper-cased.
Differing(row) ==
  {f \in DOMAIN INTEGRITY_MAP :
     LET vm == master[row.m][INTEGRITY_MAP[f][1]]
         vp == parcel[row.p][INTEGRITY_MAP[f][2]]
     IN  Present(vm) /\ Present(vp) /\ Upper(Strip(vm.s)) # Upper(Strip(vp.s))}

BioDataFields == {"BIRTHDAY", "GENDER", "FARMER", "FARMWORKER", "FISHERFOLK"}
MismatchTags ==
  UNION {Range(r.ERROR_TAG) : r \in Range(df_merged) \cup all_errors}
  \cup {e.tag : e \in Range(integrity_errors)}

RawParcelRows(m) ==
  Cardinality({j \in DOMAIN parcel : Upper(Strip(StrOf(parcel[j].ffrs_no))) = StrictKey(m)})
JoinedRows == {r \in Range(df_merged) \cup Sheets : r.p # 0}

\* C14: on every joined row the multiplicity flag is 'YES' exactly when the
\* row's strict key occurs on two or more rows of the raw parcel list, and 'NO'
\* otherwise; all the joined rows of one key carry the same flag.
MultiplicityFlag ==
  /\ \A r \in JoinedRows :
       /\ r.HAS_MULTIPLE_LAND_HOLDINGS \in {"YES", "NO"}
       /\ (r.HAS_MULTIPLE_LAND_HOLDINGS = "YES") <=> (RawParcelRows(r.m) >= 2)
  /\ \A r1, r2 \in JoinedRows :
       r1.KEY_ID = r2.KEY_ID =>
         r1.HAS_MULTIPLE_LAND_HOLDINGS = r2.HAS_MULTIPLE_LAND_HOLDINGS

\* A clean row with land carries 'YES' for a key typed in two ways in the
\* parcel list.
MultiplicityFlagWitness ==
  /\ pc = "done"
  /\ \E r \in df_with :
       /\ r.HAS_MULTIPLE_LAND_HOLDINGS = "YES"
       /\ \E j \in DOMAIN parcel :
            /\ ParcelKey(j) = r.KEY_ID
            /\ parcel[j].ffrs_no # parcel[r.p].ffrs_no

\* ------------------------------------------------------------- geotag claims
Collapsed == gpc \in {"findings", "summary", "written"}
GeorefIds(df) == {df[i].GEOREF_ID : i \in DOMAIN df}
RowsOf(df, id) == Cardinality({i \in DOMAIN df : df[i].GEOREF_ID = id})
\* The rows of the masked reference whose identifier is the geotag row's.
Candidates(r) ==
  {p \in DOMAIN df_parcel : ~r.RSBSA_ID.null /\ df_parcel[p].KEY_ID = r.RSBSA_ID}
SameCategory(r, p) ==
  normalize_commodity(r.COMMODITY) = normalize_commodity(df_parcel[p].COMMODITY)
\* The geotag row a row of 'Clean Data' comes from.
SourceRow(r) == CHOOSE g \in Range(df_clean_geo) : g.GEOREF_ID = r.GEOREF_ID

\* C12: after the join and the collapse the enriched table has exactly one row
\* for every distinct GEOREF ID of the de-duplicated geotag table, and no row
\* of any other GEOREF ID: none is lost when the RSBSA ID has no candidate in
\* the reference, none is repeated when it has several.  The de-duplicated
\* table itself has one row per GEOREF ID of the file.
CollapseCardinality ==
  /\ gpc \notin {"mask", "dedupe"} =>
       /\ GeorefIds(df_clean_geo) = GeorefIds(df_geo)
       /\ \A id \in GeorefIds(df_geo) : RowsOf(df_clean_geo, id) = 1
  /\ Collapsed =>
       /\ GeorefIds(df_final) = GeorefIds(df_clean_geo)
       /\ \A id \in GeorefIds(df_clean_geo) : RowsOf(df_final, id) = 1

\* One geotag row has several candidates and another has none; the file had a
\* repeated GEOREF ID or not, both rows are in the output.
CollapseCardinalityWitness ==
  /\ gpc = "written"
  /\ \E r1, r2 \in Range(df_clean_geo) :
       /\ Cardinality(Candidates(r1)) >= 2
       /\ Candidates(r2) = {}
       /\ Len(geo_merged) > Len(df_final)
       /\ Len(df_final) = 2

\* C13: a geotag row whose RSBSA ID has two or more candidates in the
\* reference, at least one of them of the same normalized commodity, is
\* collapsed onto a candidate of the same normalized commodity: its CROP AREA
\* and reference commodity are that candidate's, never 'COMMODITY MISMATCH'.
TieBreakPriority ==
  Collapsed =>
    \A i \in DOMAIN df_final :
      LET r == df_final[i]
          same == {p \in Candidates(r) : SameCategory(r, p)}
      IN  (Cardinality(Candidates(r)) >= 2 /\ same # {}) =>
            /\ r.CROP_AREA # COMMODITY_MISMATCH
            /\ r.CROP_AREA # ID_NOT_FOUND
            /\ \E p \in same : /\ r.CROP_AREA = df_parcel[p].CROP_AREA
                                /\ r.COMMODITY_parcel = df_parcel[p].COMMODITY

\* The first candidate in reference order is of another commodity, a later one
\* is of the same commodity.
TieBreakWitness ==
  /\ gpc = "written"
  /\ \E i \in DOMAIN df_final :
       LET r == df_final[i]
       IN  /\ Cardinality(Candidates(r)) >= 2
           /\ \E p \in Candidates(r) :
                /\ SameCategory(r, p)
                /\ \A q \in Candidates(r) : q < p => ~SameCategory(r, q)
                /\ \E q \in Candidates(r) : q < p

\* --------------------------------------------------------------------- C15
Categories == {RICE_KEY, CORN_KEY, SUGAR_KEY, OTHER_KEY}
\* The commodity cells of the run: both files' columns.
CommodityCells ==
  {df_geo[i].COMMODITY : i \in DOMAIN df_geo} \cup {ref[j].COMMODITY : j \in DOMAIN ref}
\* The upper-cased text of the cell has the word somewhere in it.
Mentions(c, word) ==
  LET s == Upper(StrOf(c))
  IN  \E i, j \in 1..Len(s) : SubSeq(s, i, j) = word
Padded(c) == Txt(<<" ", " ">> \o StrOf(c) \o <<" ">>)
Shouted(c) == Txt(Upper(StrOf(c)))

\* C15: normalize_commodity maps every commodity cell, a missing one
\* included, to one of RICE, CORN, SUGAR, OTHER; the result is RICE when the
\* text mentions RICE or PALAY, else CORN when it mentions CORN, else SUGAR
\* when it mentions SUGAR, else OTHER, whatever the case and the surrounding
\* blanks; the category of a category is itself.
NormalizeCommodityTotal ==
  \A c \in CommodityCells :
    LET n == normalize_commodity(c)
    IN  /\ n \in Categories
        /\ n = (IF Mentions(c, RICE_KEY) \/ Mentions(c, PALAY_KEY) THEN RICE_KEY
                ELSE IF Mentions(c, CORN_KEY) THEN CORN_KEY
                ELSE IF Mentions(c, SUGAR_KEY) THEN SUGAR_KEY
                ELSE OTHER_KEY)
        /\ normalize_commodity(Padded(c)) = n
        /\ normalize_commodity(Shouted(c)) = n
        /\ normalize_commodity(Txt(n)) = n
        /\ (c \in {Palay, RICE, RiceGrain} => n = RICE_KEY)
        /\ (c = Bananas => n = OTHER_KEY)

\* A geotag row typed 'Rice-corn' was matched with a reference row typed
\* 'rice grain': RICE has precedence over CORN on both.
NormalizeCommodityWitness ==
  /\ gpc = "written"
  /\ \E i \in DOMAIN df_final :
       /\ df_final[i].COMMODITY = RiceCorn
       /\ df_final[i].COMMODITY_parcel = RiceGrain
       /\ df_final[i].is_match

\* --------------------------------------------------------------------- C16
\* C16: the final CROP AREA of every row of 'Clean Data' is 'ID NOT FOUND'
\* when no row of the reference has the row's RSBSA ID; otherwise 'COMMODITY
\* MISMATCH' when the reference row kept has another normalized commodity,
\* which is the case exactly when no candidate has the row's normalized
\* commodity; otherwise the area of the reference row kept, a candidate of
\* the same normalized commodity.
FinalAreaResolution ==
  Collapsed =>
    \A i \in DOMAIN df_final :
      LET r == df_final[i]
          same == {p \in Candidates(r) : SameCategory(r, p)}
      IN  IF Candidates(r) = {} THEN r.CROP_AREA = ID_NOT_FOUND
          ELSE IF normalize_commodity(r.COMMODITY) # normalize_commodity(r.COMMODITY_parcel)
               THEN r.CROP_AREA = COMMODITY_MISMATCH /\ same = {}
               ELSE /\ r.CROP_AREA \notin {ID_NOT_FOUND, COMMODITY_MISMATCH}
                    /\ \E p \in same : /\ r.CROP_AREA = df_parcel[p].CROP_AREA
                                        /\ r.COMMODITY_parcel = df_parcel[p].COMMODITY

\* One file gives both sentinels: a row without a candidate and a row whose
\* candidates are all of another commodity.
FinalAreaWitness ==
  /\ gpc = "written"
  /\ \E i, j \in DOMAIN df_final :
       /\ df_final[i].CROP_AREA = ID_NOT_FOUND
       /\ df_final[j].CROP_AREA = COMMODITY_MISMATCH
       /\ Candidates(df_final[j]) # {}

\* --------------------------------------------------------------------- C17
Classified == gpc \in {"summary", "written"}
ValidDate(cell) == temp_track_dt(cell) # NaT /\ temp_track_dt(cell) >= cutoff_date
Sentinel(area) == area \in {ID_NOT_FOUND, COMMODITY_MISMATCH}
\* The verified area as the file gives it (line 1077 rewrites the column).
VerifiedAsRead(r) == SourceRow(r).VERIFIED_AREA

\* C17: FINDINGS is the first that applies of: the invalid-date verdict when
\* the track date is missing, not a date, or before 2024-01-01; 'NO CROP AREA'
\* when the final CROP AREA is a sentinel, another text, or missing; 'ABOVE';
\* 'OK'.  A row of valid date and sentinel area is 'NO CROP AREA'.  Two rows
\* of equal track date, final area and verified area have equal FINDINGS.
FindingPriority ==
  Classified =>
    /\ \A i \in DOMAIN df_final :
         LET r == df_final[i]
         IN  IF ~ValidDate(r.TRACK_DATE) THEN r.FINDINGS = "INVALID DATE (< 2024)"
             ELSE IF r.CROP_AREA.kind # "float" THEN r.FINDINGS = "NO CROP AREA"
             ELSE r.FINDINGS \in {"ABOVE", "OK"}
    /\ \A i \in DOMAIN df_final :
         (ValidDate(df_final[i].TRACK_DATE) /\ Sentinel(df_final[i].CROP_AREA))
           => df_final[i].FINDINGS = "NO CROP AREA"
    /\ \A i, j \in DOMAIN df_final :
         (/\ df_final[i].TRACK_DATE = df_final[j].TRACK_DATE
          /\ df_final[i].CROP_AREA = df_final[j].CROP_AREA
          /\ VerifiedAsRead(df_final[i]) = VerifiedAsRead(df_final[j]))
           => df_final[i].FINDINGS = df_final[j].FINDINGS

\* A row of invalid date whose area is a sentinel has the invalid-date verdict.
FindingPriorityWitness ==
  /\ gpc = "written"
  /\ \E i \in DOMAIN df_final :
       /\ ~ValidDate(df_final[i].TRACK_DATE)
       /\ Sentinel(df_final[i].CROP_AREA)
       /\ df_final[i].FINDINGS = "INVALID DATE (< 2024)"

\* --------------------------------------------------------------------- C18
\* C18: a row of valid date, numeric reference area a and numeric verified
\* area v is 'ABOVE' exactly when v > a + 2, and 'OK' otherwise; v = a + 2 is
\* 'OK'.
ToleranceStrict ==
  Classified =>
    \A i \in DOMAIN df_final :
      LET r == df_final[i]
          v == VerifiedAsRead(r)
      IN  (ValidDate(r.TRACK_DATE) /\ r.CROP_AREA.kind = "float" /\ v.kind = "float") =>
            /\ r.FINDINGS = (IF v.n > r.CROP_AREA.n + 200 THEN "ABOVE" ELSE "OK")

\* --------------------------------------------------------------------- C19
Unparseable(val) == val.kind = "str" /\ ~Float(val).ok

\* C19: a verified area that is not a number is not written as 0 to 'Clean
\* Data' and its row is not classified 'OK'.
ParseFailureDistinct ==
  gpc = "written" =>
    \A i \in DOMAIN df_final :
      Unparseable(VerifiedAsRead(df_final[i])) =>
        /\ df_final[i].VERIFIED_AREA # Num(0)
        /\ df_final[i].FINDINGS # "OK"

\* --------------------------------------------------------------------- C20
RECURSIVE SumOver(_, _)
SumOver(S, field) ==
  IF S = {} THEN 0
  ELSE LET r == CHOOSE x \in S : TRUE IN r[field] + SumOver(S \ {r}, field)
Provinces(df) == {df[i].province_sheet : i \in DOMAIN df}
MissingPlace(r) == r.farmer_address_mun.null \/ r.farmer_address_bgy.null
PlaceOf(cell) == IF cell.null THEN UNKNOWN ELSE cell

\* C20: once both summaries are made, every record whose Municipality or
\* Barangay is missing is counted in a group named 'UNKNOWN' on that side, and
\* in every province the groups' counts and area sums add up to the totals
\* over the province's records: the erroneous records on the erroneous
\* summary, the areas of the clean records on the clean summary.
AggregationLosesNoRecord ==
  apc = "saved" =>
    /\ \A prov \in Provinces(df_err) :
         /\ SumOver({r \in err_outputs : r.Province = prov}, "Total_Errors")
              = Cardinality(prov_df(df_err, prov))
         /\ \A i \in prov_df(df_err, prov) :
              \E r \in err_outputs :
                /\ r.Province = prov
                /\ r.Municipality = PlaceOf(df_err[i].farmer_address_mun)
                /\ r.Barangay = PlaceOf(df_err[i].farmer_address_bgy)
    /\ \A prov \in Provinces(df_clean) :
         /\ SumOver({r \in clean_outputs : r.Province = prov}, "Total_Area")
              = AreaSum(df_clean, prov_df(df_clean, prov))
         /\ \A i \in prov_df(df_clean, prov) :
              \E r \in clean_outputs :
                /\ r.Province = prov
                /\ r.Municipality = PlaceOf(df_clean[i].farmer_address_mun)
                /\ r.Barangay = PlaceOf(df_clean[i].farmer_address_bgy)

\* --------------------------------------------------------------------- C29
\* The rows of masterlist record m over the three sheets.
RowsAcrossSheets(m) ==
  Cardinality({r \in df_with : r.m = m}) + Cardinality({r \in df_no : r.m = m})
  + Cardinality({r \in all_errors : r.m = m})

\* C29: once the sheets are made every masterlist record has a row on at
\* least one of them; a record still CLEAN after the strict and fuzzy steps
\* has as many rows over the three sheets as the parcel list has rows of its
\* key, and one row when it has none; a record flagged by those steps has one
\* row, on the erroneous sheet.
TriageCoverage ==
  pc = "done" =>
    \A m \in DOMAIN master :
      /\ RowsAcrossSheets(m) >= 1
      /\ IF dfm[m].DATA_STATUS = "CLEAN"
         THEN RowsAcrossSheets(m) = (IF RawParcelRows(m) >= 1 THEN RawParcelRows(m) ELSE 1)
         ELSE /\ RowsAcrossSheets(m) = 1
              /\ \E r \in all_errors : r.m = m

\* A clean record with two parcel rows has one row on 'Clean - With Parcels'
\* and one on the erroneous sheet, next to a clean record without parcel rows.
TriageCoverageWitness ==
  /\ pc = "done"
  /\ \E m, k \in DOMAIN master :
       /\ RawParcelRows(m) = 2
       /\ \E r \in df_with : r.m = m
       /\ \E r \in all_errors : r.m = m
       /\ \E r \in df_no : r.m = k

\* --------------------------------------------------------------------- C26
\* The reference rows left by the commodity filter whose identifier is the
\* geotag row's up to case and surrounding whitespace.
NormalizedCandidates(r) ==
  {p \in DOMAIN df_parcel :
     /\ ~r.RSBSA_ID.null /\ ~df_parcel[p].KEY_ID.null
     /\ NormStr(df_parcel[p].KEY_ID) = NormStr(r.RSBSA_ID)}

\* C26: a row of 'Clean Data' whose RSBSA ID is the identifier of a row of the
\* filtered reference up to case and surrounding whitespace is matched: its
\* CROP AREA is not 'ID NOT FOUND'.
JoinOnNormalizedKey ==
  Collapsed =>
    \A i \in DOMAIN df_final :
      NormalizedCandidates(df_final[i]) # {} => df_final[i].CROP_AREA # ID_NOT_FOUND

\* --------------------------------------------------------------------- C30
\* The rows of the reference as read of the geotag row's identifier and
\* normalized commodity, that commodity being one of the three crops.
RawSameCrop(r) ==
  {p \in DOMAIN ref :
     /\ ~r.RSBSA_ID.null /\ ref[p].KEY_ID = r.RSBSA_ID
     /\ normalize_commodity(ref[p].COMMODITY) = normalize_commodity(r.COMMODITY)
     /\ normalize_commodity(ref[p].COMMODITY) \in {RICE_KEY, CORN_KEY, SUGAR_KEY}}

\* C30: every row of the reference whose normalized commodity is RICE, CORN
\* or SUGAR is kept by the commodity filter, and a row of 'Clean Data' whose
\* RSBSA ID has a reference row of its own normalized commodity in the
\* reference as read is neither 'ID NOT FOUND' nor 'COMMODITY MISMATCH'.
FilterAgreesWithNormalization ==
  /\ gpc # "mask" =>
       \A p \in DOMAIN ref :
         normalize_commodity(ref[p].COMMODITY) \in {RICE_KEY, CORN_KEY, SUGAR_KEY}
           => ref[p] \in Range(df_parcel)
  /\ Collapsed =>
       \A i \in DOMAIN df_final :
         RawSameCrop(df_final[i]) # {}
           => df_final[i].CROP_AREA \notin {ID_NOT_FOUND, COMMODITY_MISMATCH}

\* --------------------------------------------------------------------- C21
\* The rows a line of the clean summary is made from, and its farmers.
SummaryGroup(row) ==
  GroupOf(df_clean, prov_df(df_clean, row.Province), <<row.Municipality, row.Barangay>>)
SummaryFarmers(row) == unique_farmers(df_clean, SummaryGroup(row))
\* days / 365.25 in whole years: the largest y with 1461 y <= 4 days.
WholeYears(days) == (4 * days) \div 1461
YearsOf(i) == WholeYears(AgeDays(df_clean[i].birthday).n)
Dated(i) == ~AgeDays(df_clean[i].birthday).nan

\* C21: on every line of the clean summary the Youth, Working and Senior
\* counts are the numbers of the group's farmers whose days since birth, over
\* 365.25 and in whole years, are 12 to 30, 31 to 59, and 60 or more: nobody
\* is Working before 31 x 365.25 days nor Senior before 60 x 365.25 days.
AgeBracketByJulianYear ==
  \A row \in clean_outputs :
    LET F == {i \in SummaryFarmers(row) : Dated(i)}
    IN  /\ row.Youth = Cardinality({i \in F : 12 <= YearsOf(i) /\ YearsOf(i) <= 30})
        /\ row.Working = Cardinality({i \in F : 31 <= YearsOf(i) /\ YearsOf(i) <= 59})
        /\ row.Senior = Cardinality({i \in F : YearsOf(i) >= 60})

\* --------------------------------------------------------------------- C22
\* The area of the rows of a group whose normalized commodity is cat.
CategoryArea(group, cat) ==
  AreaSum(df_clean, {i \in group : normalize_commodity(df_clean[i].commodity) = cat})

\* C22: on every line of the clean summary the Rice, Corn and Sugar areas are
\* the sums of the areas of the group's rows whose normalized commodity is
\* RICE, CORN and SUGAR, every row counting in at most one of them, so that
\* together they do not exceed the Total Area.
CommodityAreasPartition ==
  \A row \in clean_outputs :
    /\ row.Rice_Area = CategoryArea(SummaryGroup(row), RICE_KEY)
    /\ row.Corn_Area = CategoryArea(SummaryGroup(row), CORN_KEY)
    /\ row.Sugar_Area = CategoryArea(SummaryGroup(row), SUGAR_KEY)
    /\ row.Rice_Area + row.Corn_Area + row.Sugar_Area <= row.Total_Area

\* --------------------------------------------------------------------- C27
\* The data of file f is in the saved workbook: its rows under its name when
\* rows are stacked, a sheet named after it with its frame otherwise.
InOutput(f) ==
  IF choice = "1"
  THEN /\ f.rows # <<>>
       /\ \A k \in DOMAIN f.rows :
            \E j \in DOMAIN output.rows :
              output.rows[j] = [v |-> f.rows[k], Source_File |-> f.name]
  ELSE \E j \in DOMAIN output.sheets :
         /\ StartsWith(output.sheets[j].name, base_filename(f.name))
         /\ output.sheets[j].rows = f.rows
         /\ output.sheets[j].columns = f.columns

\* C27: in both operations a file of the input folder is gone only when the
\* output workbook has been saved and holds that file's data; when the save
\* fails, or reading or writing a file fails, the file stays.
DeleteAfterSave ==
  \A i \in DOMAIN all_files :
    all_files[i].name \notin input_dir => output.saved /\ InOutput(all_files[i])

\* Sheets combined, the workbook saved: one file is removed, another whose
\* read or write failed stays in the folder.
DeleteAfterSaveWitness ==
  /\ xpc = "exit"
  /\ choice = "2"
  /\ output.saved
  /\ \E i, j \in DOMAIN all_files :
       /\ all_files[i].name \notin input_dir
       /\ all_files[j].name \in input_dir
       /\ all_files[j].name \notin Range(files_to_delete)

\* --------------------------------------------------------------------- C28
Valid(f) == f.kind = "ok" /\ f.rows # <<>> /\ f.columns # <<>>
FirstValid ==
  all_files[CHOOSE i \in DOMAIN all_files :
              Valid(all_files[i]) /\ \A j \in 1..(i - 1) : ~Valid(all_files[j])]
\* Some file is empty or unreadable, or differs in columns from the first
\* valid one.
Rejects ==
  \E i \in DOMAIN all_files :
    \/ ~Valid(all_files[i])
    \/ all_files[i].columns # FirstValid.columns
\* The rows of the files from the i-th on, in file order, each with its file.
RECURSIVE StackedRows(_)
StackedRows(i) ==
  IF i > Len(all_files) THEN <<>>
  ELSE [k \in DOMAIN all_files[i].rows |->
          [v |-> all_files[i].rows[k], Source_File |-> all_files[i].name]]
       \o StackedRows(i + 1)

\* C28: when rows are stacked and some file is empty, unreadable or differs
\* in its column list, order included, from the first valid file, no workbook
\* is written and no input file removed; a workbook that is written holds
\* the rows of every input file in file order, each with its Source_File.
StrictStackAllOrNothing ==
  choice = "1" =>
    /\ Rejects => /\ ~output.saved
                  /\ \A i \in DOMAIN all_files : all_files[i].name \in input_dir
    /\ output.saved => output.rows = StackedRows(1)

\* Two files of the same columns are stacked and saved; elsewhere a run over
\* a rejected file has ended.
StrictStackWitness ==
  /\ choice = "1"
  /\ xpc \in {"cleanup", "exit"}
  /\ output.saved
  /\ Len(all_files) = 2
  /\ Len(output.rows) = 3

\* --------------------------------------------------------------------- C23
\* A required column is missing from an input of the run, as the code reads
\* the header: ignoring padding and letter case in the masterlist, the parcel
\* list and the parcel reference, ignoring padding only in a geotag file.
RequiredColumnMissing ==
  \/ job = "merger" /\ (MASTER_KEY \ folded(schema.master) # {}
                         \/ PARCEL_KEY \ folded(schema.parcel) # {})
  \/ job = "geotag" /\ (REFERENCE_COLS \ folded(schema.reference) # {}
                         \/ TARGET_COLS_GEOTAG \ stripped(schema.geotag) # {})
Untouched == \A w \in Workbooks : disk[w] # "new"

\* C23: a run over a masterlist without 'rsbsa_no', a parcel list without
\* 'FFRS System Generated No.', a parcel reference without its identifier,
\* area or commodity column, or a geotag file without one of the target
\* columns creates and modifies no workbook of the output folder, and ends
\* at a column check.
SchemaErrorAbortsBeforeOutput ==
  RequiredColumnMissing =>
    /\ Untouched
    /\ rpc = "end" =>
         outcome \in {"column not found", "error loading parcel list", "missing columns"}

\* A geotag file without one target column, over a reference that is in
\* order and an output folder holding older workbooks: the run has ended.
SchemaErrorWitness ==
  /\ job = "geotag"
  /\ rpc = "end"
  /\ outcome = "missing columns"
  /\ Cardinality(stripped(schema.geotag)) = Cardinality(TARGET_COLS_GEOTAG) - 1
  /\ disk[DUPLICATES] = "old"

\* --------------------------------------------------------------------- C24
\* The workbooks a complete run of the job writes.
DueOutputs ==
  IF job = "merger" THEN {MERGED}
  ELSE IF job = "geotag"
       THEN {CLEAN_ENRICHED} \cup (IF schema.duplicates THEN {DUPLICATES} ELSE {})
       ELSE Range(REGIONAL)

\* C24: a run that has ended has written all the workbooks it is due or none
\* of them; the duplicates report of a geotag file is not on disk without
\* the enriched workbook.
NoPartialWrite ==
  rpc = "end" =>
    /\ (\A w \in DueOutputs : disk[w] = "new") \/ Untouched
    /\ disk[DUPLICATES] = "new" => disk[CLEAN_ENRICHED] = "new"

\* --------------------------------------------------------------------- C25
\* The computation inside the scope: its progress, its exception, its place.
computation == <<work, exc, mpc>>
\* A step of the spinner thread once it runs.
SpinnerStep == spc # "unborn" /\ spc' # spc

\* C25: the spinner thread is started before the computation inside the scope
\* begins; when control continues after the scope, left normally or by an
\* exception, busy is false and the spinner thread has terminated; an
\* exception raised inside the scope stays in flight, unchanged; and no step
\* of the spinner thread changes the computation, whatever the interleaving.
SpinnerScoping ==
  /\ [](mpc = "body" \/ work > 0 => spc # "unborn")
  /\ [](mpc = "after" => ~busy /\ spc = "dead")
  /\ [][exc # "" => exc' = exc]_vars
  /\ [][SpinnerStep => UNCHANGED computation]_vars

\* Control continues with the exception the computation raised after some
\* progress, the spinner having shown frames and terminated.
SpinnerScopingWitness ==
  /\ mpc = "after"
  /\ exc = "KeyError"
  /\ work = MaxWork
  /\ glyph = 2
  /\ spc = "dead"
====
